---- MODULE Spec2Model ----
(***************************************************************************)
(* DataGenFlow: the block execution engine (lib/workflow.py), its block    *)
(* registry (lib/blocks/registry.py) and error taxonomy (lib/errors.py),   *)
(* the in-memory job queue (lib/job_queue.py), the job processor           *)
(* (lib/job_processor.py), schema introspection (lib/blocks/base.py,       *)
(* lib/blocks/config.py), the JSON validator block                         *)
(* (lib/blocks/builtin/json_validator.py) and the job endpoints of app.py. *)
(*                                                                         *)
(* Python dicts are objects: `heap` maps an address to the dict stored     *)
(* there, so that dict.copy() (a new object) and plain assignment (an      *)
(* alias) are different things in the model, as they are in the code.      *)
(* A dict is a function from a finite set of keys to values.               *)
(* Wall-clock values (execution_time) and the uuid trace_id are left out:  *)
(* nothing in the engine's control or data flow reads them.                *)
(* A block's execute reads the dict it is passed and returns a new dict    *)
(* or raises, as every block under lib/blocks does; dict values are atoms. *)
(***************************************************************************)
EXTENDS Integers, Sequences, FiniteSets, TLC

VARIABLES
    blocks,           \* Pipeline.blocks: the block definitions given to the constructor
    block_instances,  \* Pipeline._block_instances
    pc,               \* position of the caller / of Pipeline.execute
    heap,             \* address -> dict
    initial_data,     \* address of the caller's dict passed to execute
    caller_before,    \* value of the caller's dict when the run was set up
    accumulated_data, \* address of execute's accumulated_data (0: not yet bound)
    block_input,      \* address of execute's block_input (0: not yet bound)
    result,           \* the dict the current block returned
    trace,            \* execute's trace list
    i,                \* execute's loop index (0-based, as enumerate gives it)
    calls,            \* indices of the blocks whose execute was invoked, in order
    raised,           \* the exception that escaped to the caller
    sink,             \* execute's job_id, job_queue and storage arguments
    jobs,             \* JobQueue._jobs: job_id -> job metadata
    active_job,       \* JobQueue._active_job (0: None)
    job_history,      \* JobQueue._job_history: pipeline_id -> job ids
    held,             \* what a caller holds from get_job / get_pipeline_history
    last_call,        \* the last call made on the job queue and what it gave
    running,          \* the execute run whose locals the variables above hold
    frames,           \* the locals of the execute runs suspended meanwhile
    proc,             \* _process_job: its position and locals
    db,               \* Storage: the pipeline row, the job row, the saved records
    schema,           \* a block class and what was asked of it: its schemas
    registry,         \* BlockRegistry: the modules to scan and _blocks
    validator,        \* a JSONValidatorBlock, its input and what execute gave
    app               \* the /generate requests in flight and the job threads

\* the in-memory job queue
qvars == <<jobs, active_job, job_history>>

\* state outside the engine and the job queue
envvars == <<held, last_call, running, frames, proc, db, schema, registry, validator, app>>

\* the engine and the arguments of its run
engvars == <<blocks, block_instances, pc, heap, initial_data, caller_before,
             accumulated_data, block_input, result, trace, i, calls, raised, sink>>

vars == <<blocks, block_instances, pc, heap, initial_data, caller_before,
          accumulated_data, block_input, result, trace, i, calls, raised,
          sink, qvars, envvars>>

----------------------------------------------------------------------------
(* Bounds *)

MaxBlocks == 3
MaxVal == 2
MaxJobs == 2
MaxConcBlocks == 2
MaxRuns == 2
MaxParams == 2
MaxTypeDepth == 2
MaxArms == 2
MaxCalls == 3
MaxJsonDepth == 1
MaxModules == 3
MaxRequests == 2

----------------------------------------------------------------------------
(* Dicts *)

Keys == {"text", "valid"}
Vals == 1..MaxVal

EmptyDict == << >>

DictsOver(V) == UNION {[D -> V] : D \in SUBSET Keys}

\* replacing the dict by other instead of merging into it
DictUpdateReplace(d, other) == other

\* dict.update(other): keys of other are added, colliding keys take other's value
DictUpdate(d, other) ==
    [k \in (DOMAIN d) \cup (DOMAIN other) |->
        IF k \in DOMAIN other THEN other[k] ELSE d[k]]

\* plain assignment: the same object under a second name
DictAlias(h, a) == [heap |-> h, addr |-> a]

\* dict.copy(): a new object holding the same items
DictCopy(h, a) == [heap |-> Append(h, h[a]), addr |-> Len(h) + 1]

----------------------------------------------------------------------------
(* lib/blocks/registry.py *)

\* registry._blocks: class name -> class (only the declared outputs matter to
\* the engine).  WildcardBlock declares outputs = ["*"].
Registry ==
    ("TransformerBlock" :> [outputs |-> {"text"}]) @@
    ("ValidatorBlock"   :> [outputs |-> {"text", "valid"}]) @@
    ("UserBlock"        :> [outputs |-> {}]) @@
    ("WildcardBlock"    :> [outputs |-> {"*"}])

UnknownTypes == {"NonExistentBlock"}

get_block_class(block_type) ==
    IF block_type \in DOMAIN Registry
        THEN [found |-> TRUE, name |-> block_type, outputs |-> Registry[block_type].outputs]
        ELSE [found |-> FALSE, name |-> block_type, outputs |-> {}]

----------------------------------------------------------------------------
(* lib/job_queue.py *)

HistoryMax == 10

TerminalStatuses == {"completed", "failed", "cancelled"}

\* the metadata dict create_job stores; timestamps are "now", None is "None"
NewJob(job_id, pipeline_id, total_seeds, status) ==
    [id                |-> job_id,
     pipeline_id       |-> pipeline_id,
     status            |-> status,
     progress          |-> <<0, 1>>,
     current_seed      |-> 0,
     total_seeds       |-> total_seeds,
     current_block     |-> "None",
     current_step      |-> "None",
     records_generated |-> 0,
     records_failed    |-> 0,
     error             |-> "None",
     started_at        |-> "now",
     completed_at      |-> "None"]

EmptyQueue == [jobs |-> << >>, active |-> 0, history |-> << >>]

\* deque(maxlen=10).append
AddToHistory(history, pipeline_id, job_id) ==
    LET old == IF pipeline_id \in DOMAIN history THEN history[pipeline_id] ELSE << >>
        new == Append(old, job_id)
        cut == IF Len(new) > HistoryMax THEN Tail(new) ELSE new
    IN  [p \in (DOMAIN history) \cup {pipeline_id} |->
            IF p = pipeline_id THEN cut ELSE history[p]]

\* JobQueue.create_job without the check of the active slot
QueueCreateJobAlways(q, job_id, pipeline_id, total_seeds, status) ==
    [q |-> [jobs    |-> [j \in (DOMAIN q.jobs) \cup {job_id} |->
                            IF j = job_id
                            THEN NewJob(job_id, pipeline_id, total_seeds, status)
                            ELSE q.jobs[j]],
            active  |-> job_id,
            history |-> AddToHistory(q.history, pipeline_id, job_id)],
     raises |-> FALSE]

\* JobQueue.create_job: the queue afterwards and whether RuntimeError is raised
QueueCreateJob(q, job_id, pipeline_id, total_seeds, status) ==
    IF q.active # 0
    THEN [q |-> q, raises |-> TRUE]
    ELSE [q |-> [jobs    |-> [j \in (DOMAIN q.jobs) \cup {job_id} |->
                                 IF j = job_id
                                 THEN NewJob(job_id, pipeline_id, total_seeds, status)
                                 ELSE q.jobs[j]],
                 active  |-> job_id,
                 history |-> AddToHistory(q.history, pipeline_id, job_id)],
          raises |-> FALSE]

\* JobQueue.update_job(job_id, **updates): the queue afterwards and the result
QueueUpdateJob(q, job_id, updates) ==
    IF job_id \notin DOMAIN q.jobs
    THEN [q |-> q, ret |-> FALSE]
    ELSE LET job      == DictUpdate(q.jobs[job_id], updates)
             terminal == /\ "status" \in DOMAIN updates
                         /\ updates.status \in TerminalStatuses
             stamped  == IF terminal /\ updates.status # "cancelled"
                         THEN [job EXCEPT !.completed_at = "now"]
                         ELSE job
         IN  [q |-> [jobs    |-> [q.jobs EXCEPT ![job_id] = stamped],
                     active  |-> IF terminal /\ q.active = job_id THEN 0 ELSE q.active,
                     history |-> q.history],
              ret |-> TRUE]

\* a cancel_job that clears the active slot whatever job it holds
QueueCancelJobClearsSlot(q, job_id) ==
    IF job_id \notin DOMAIN q.jobs
    THEN [q |-> q, ret |-> FALSE]
    ELSE [q |-> [jobs    |-> [q.jobs EXCEPT ![job_id] =
                                 [@ EXCEPT !.status = "cancelled",
                                           !.completed_at = "now"]],
                 active  |-> 0,
                 history |-> q.history],
          ret |-> TRUE]

\* JobQueue.cancel_job
QueueCancelJob(q, job_id) ==
    IF job_id \notin DOMAIN q.jobs
    THEN [q |-> q, ret |-> FALSE]
    ELSE [q |-> [jobs    |-> [q.jobs EXCEPT ![job_id] =
                                 [@ EXCEPT !.status = "cancelled",
                                           !.completed_at = "now"]],
                 active  |-> IF q.active = job_id THEN 0 ELSE q.active,
                 history |-> q.history],
          ret |-> TRUE]

\* list.remove: the first occurrence of x is taken out
RECURSIVE ListRemove(_, _)
ListRemove(xs, x) ==
    IF xs = << >> THEN << >>
    ELSE IF Head(xs) = x THEN Tail(xs)
    ELSE <<Head(xs)>> \o ListRemove(Tail(xs), x)

\* JobQueue.delete_job
QueueDeleteJob(q, job_id) ==
    IF job_id \notin DOMAIN q.jobs
    THEN [q |-> q, ret |-> FALSE]
    ELSE LET pipeline_id == q.jobs[job_id].pipeline_id
         IN  [q |-> [jobs    |-> [j \in (DOMAIN q.jobs) \ {job_id} |-> q.jobs[j]],
                     active  |-> IF q.active = job_id THEN 0 ELSE q.active,
                     history |-> IF pipeline_id \in DOMAIN q.history
                                 THEN [q.history EXCEPT ![pipeline_id] =
                                          ListRemove(@, job_id)]
                                 ELSE q.history],
              ret |-> TRUE]

\* the queue held in the variables
Queue == [jobs |-> jobs, active |-> active_job, history |-> job_history]

\* a reference to the dict the queue keeps for job_id
Handle(job_id) == [job_id |-> job_id]

\* JobQueue.get_job: the dict of the queue itself, or None
QueueGetJob(q, job_id) ==
    IF job_id \in DOMAIN q.jobs THEN <<Handle(job_id)>> ELSE << >>

RECURSIVE HandlesOf(_, _)
HandlesOf(q, job_ids) ==
    IF job_ids = << >> THEN << >>
    ELSE IF Head(job_ids) \in DOMAIN q.jobs
    THEN <<Handle(Head(job_ids))>> \o HandlesOf(q, Tail(job_ids))
    ELSE HandlesOf(q, Tail(job_ids))

\* JobQueue.get_pipeline_history: a new list of the queue's own dicts
QueueGetPipelineHistory(q, pipeline_id) ==
    HandlesOf(q, IF pipeline_id \in DOMAIN q.history
                 THEN q.history[pipeline_id] ELSE << >>)

\* a caller holding nothing
NoHandles == << >>

\* no call made yet
NoCall == [name |-> "none", id |-> 0, args |-> << >>, ret |-> "None"]

Call(name, id, args, ret) == [name |-> name, id |-> id, args |-> args, ret |-> ret]

\* True / False as the caller sees them
Bool(b) == IF b THEN "True" ELSE "False"

SetQueue(q) ==
    /\ jobs' = q.jobs
    /\ active_job' = q.active
    /\ job_history' = q.history

----------------------------------------------------------------------------
(* lib/blocks/base.py and lib/blocks/config.py: schema introspection *)

\* annotations of a constructor parameter ("empty": not annotated) and its
\* default ("empty": none)
Annotations == {"empty", "str", "int", "float", "bool", "list[str]", "list[str] | None"}
Defaults == {"empty", "10"}

\* __init__ signatures without self: the k-th parameter is named ParamName[k]
ParamName == <<"param1", "param2", "param3", "param4">>
Signatures ==
    UNION {[1..m -> [annotation : Annotations, default : Defaults]] : m \in 0..MaxParams}
ParamNames(sig) == {ParamName[k] : k \in 1..Len(sig)}
ParamOf(sig, name) == sig[CHOOSE k \in 1..Len(sig) : ParamName[k] = name]

\* A type as typing sees it: a class (int, float, bool, str, NoneType, or
\* any other one), list[T], typing.Union[...] or the X | Y of PEP 604.
Prim(kind) == [kind |-> kind, args |-> << >>]
ListOf(t) == [kind |-> "list", args |-> <<t>>]
UnionOf(kind, ts) == [kind |-> kind, args |-> ts]

PrimTypes == {Prim(k) : k \in {"int", "float", "bool", "str", "NoneType", "other"}}
UnionKinds == {"Union", "UnionType"}

\* the arms of a union: distinct classes and lists of classes
UnionArms == PrimTypes \cup {ListOf(t) : t \in PrimTypes}

Unions ==
    {UnionOf(kind, ts) :
        kind \in UnionKinds,
        ts \in {us \in UNION {[1..m -> UnionArms] : m \in 2..MaxArms} :
                   \A j, k \in 1..Len(us) : j # k => us[j] # us[k]}}

\* classes and unions, inside up to n levels of list[...]
RECURSIVE Types(_)
Types(n) ==
    IF n = 0 THEN PrimTypes \cup Unions
    ELSE Types(n - 1) \cup {ListOf(t) : t \in Types(n - 1)}

\* what typing.get_origin gives for X | Y: types.UnionType up to Python 3.13,
\* typing.Union from 3.14 on
Builds == {"UnionType", "Union"}

\* typing.get_origin
GetOrigin(t, build) ==
    IF t.kind = "list" THEN "list"
    ELSE IF t.kind = "Union" THEN "Union"
    ELSE IF t.kind = "UnionType" THEN build
    ELSE "None"

\* get_type_hints(...).get(param_name, str) for the annotations of Annotations
TypeHint(annotation) ==
    IF annotation = "empty" THEN Prim("str")
    ELSE IF annotation = "list[str]" THEN ListOf(Prim("str"))
    ELSE IF annotation = "list[str] | None"
    THEN UnionOf("UnionType", <<ListOf(Prim("str")), Prim("NoneType")>>)
    ELSE Prim(annotation)

\* BlockConfigSchema._get_property_def
RECURSIVE GetPropertyDef(_, _)
GetPropertyDef(param_type, build) ==
    LET origin         == GetOrigin(param_type, build)
        non_none_types == SelectSeq(param_type.args, LAMBDA arg : arg # Prim("NoneType"))
    IN  IF origin = "Union" /\ non_none_types # << >>
        THEN GetPropertyDef(non_none_types[1], build)
        ELSE IF origin = "list"
        THEN [type |-> "array", items |-> GetPropertyDef(param_type.args[1], build)]
        ELSE IF param_type = Prim("int") THEN [type |-> "integer"]
        ELSE IF param_type = Prim("float") THEN [type |-> "number"]
        ELSE IF param_type = Prim("bool") THEN [type |-> "boolean"]
        ELSE [type |-> "string"]

\* BlockConfigSchema.get_config_schema, for a class without _config_enums
\* and _field_references
GetConfigSchema(sig, build) ==
    [type       |-> "object",
     properties |-> [n \in ParamNames(sig) |->
                       LET param        == ParamOf(sig, n)
                           param_type   == TypeHint(param.annotation)
                           property_def == GetPropertyDef(param_type, build)
                       IN  IF param.default # "empty"
                           THEN property_def @@ ("default" :> param.default)
                           ELSE property_def],
     required   |-> SelectSeq([k \in 1..Len(sig) |-> ParamName[k]],
                              LAMBDA n : ParamOf(sig, n).default = "empty")]

\* BaseBlock.get_schema: the config_schema it builds
BaseConfigSchema(sig) ==
    [n \in ParamNames(sig) |->
        LET param == ParamOf(sig, n)
        IN  [type     |-> IF param.annotation \in {"int", "float"} THEN "number"
                          ELSE IF param.annotation = "bool" THEN "boolean"
                          ELSE "string",
             required |-> param.default = "empty",
             default  |-> IF param.default = "empty" THEN "None" ELSE param.default]]

----------------------------------------------------------------------------
(* lib/errors.py *)

\* a message is the tuple of the parts the f-string puts together
NoError == [type |-> "None", message |-> << >>, detail |-> << >>]

PipelineError(type, message, detail) ==
    [type |-> type, message |-> message, detail |-> detail]

\* exceptions a block's execute may raise: [type, message]
BlockExceptions ==
    { [type |-> "RuntimeError",       message |-> <<"boom">>],
      [type |-> "BlockNotFoundError", message |-> <<"not found">>],
      [type |-> "ValidationError",    message |-> <<"invalid">>] }

----------------------------------------------------------------------------
(* lib/workflow.py: construction *)

\* a block definition {"type": ..., "config": ...}; config_ok says whether
\* block_class(**config) returns (FALSE: the constructor raises TypeError)
BlockDefs == [type : (DOMAIN Registry) \cup UnknownTypes, config_ok : BOOLEAN]

SeqsUpTo(S, n) == UNION {[1..m -> S] : m \in 0..n}

\* Pipeline._initialize_blocks, skipping an unknown type instead of raising
RECURSIVE InitializeBlocksSkip(_, _)
InitializeBlocksSkip(defs, insts) ==
    IF defs = << >>
    THEN [error |-> NoError, instances |-> insts]
    ELSE LET block_def   == Head(defs)
             block_type  == block_def.type
             block_class == get_block_class(block_type)
         IN  IF ~block_class.found
             THEN InitializeBlocksSkip(Tail(defs), insts)
             ELSE IF ~block_def.config_ok
             THEN [error |-> PipelineError("TypeError",
                                <<block_type, "unexpected keyword argument">>,
                                [block_type |-> block_type]),
                   instances |-> insts]
             ELSE InitializeBlocksSkip(Tail(defs),
                      Append(insts, [class |-> block_class.name,
                                     outputs |-> block_class.outputs]))

\* Pipeline._initialize_blocks, listing the classes instantiated so far as the
\* available ones
RECURSIVE InitializeBlocksAvail(_, _)
InitializeBlocksAvail(defs, insts) ==
    IF defs = << >>
    THEN [error |-> NoError, instances |-> insts]
    ELSE LET block_def   == Head(defs)
             block_type  == block_def.type
             block_class == get_block_class(block_type)
         IN  IF ~block_class.found
             THEN [error |-> PipelineError("BlockNotFoundError",
                                <<"Block", block_type, "not found">>,
                                [block_type |-> block_type,
                                 available_blocks |->
                                     {insts[k].class : k \in 1..Len(insts)}]),
                   instances |-> insts]
             ELSE IF ~block_def.config_ok
             THEN [error |-> PipelineError("TypeError",
                                <<block_type, "unexpected keyword argument">>,
                                [block_type |-> block_type]),
                   instances |-> insts]
             ELSE InitializeBlocksAvail(Tail(defs),
                      Append(insts, [class |-> block_class.name,
                                     outputs |-> block_class.outputs]))

\* Pipeline._initialize_blocks: the loop over self.blocks
RECURSIVE InitializeBlocks(_, _)
InitializeBlocks(defs, insts) ==
    IF defs = << >>
    THEN [error |-> NoError, instances |-> insts]
    ELSE LET block_def   == Head(defs)
             block_type  == block_def.type
             block_class == get_block_class(block_type)
         IN  IF ~block_class.found
             THEN [error |-> PipelineError("BlockNotFoundError",
                                <<"Block", block_type, "not found">>,
                                [block_type |-> block_type,
                                 available_blocks |-> DOMAIN Registry]),
                   instances |-> insts]
             ELSE IF ~block_def.config_ok
             THEN [error |-> PipelineError("TypeError",
                                <<block_type, "unexpected keyword argument">>,
                                [block_type |-> block_type]),
                   instances |-> insts]
             ELSE InitializeBlocks(Tail(defs),
                      Append(insts, [class |-> block_class.name,
                                     outputs |-> block_class.outputs]))

----------------------------------------------------------------------------
(* lib/workflow.py: execution *)

\* no output validation at all
ValidateOutputNone(block, res) == NoError

\* Pipeline._validate_output: NoError, or the ValidationError it raises
ValidateOutput(block, res) ==
    LET declared == block.outputs
        actual   == DOMAIN res
    IN  IF actual \subseteq declared
        THEN NoError
        ELSE PipelineError("ValidationError",
                 <<"Block", block.class, "returned undeclared fields", actual \ declared>>,
                 [block_type       |-> block.class,
                  declared_outputs |-> declared,
                  actual_outputs   |-> actual,
                  extra_fields     |-> actual \ declared])

\* re-raising every exception of the block as it is
HandleExceptionReraise(e, idx, block_name, input) ==
    PipelineError(e.type, e.message, [origin |-> "block"])

\* the except clauses of execute: what escapes when block idx raises e
HandleException(e, idx, block_name, input) ==
    IF e.type = "ValidationError"
    THEN PipelineError("ValidationError", e.message, [origin |-> "block"])
    ELSE PipelineError("BlockExecutionError",
             <<"Block", block_name, "failed at step", idx + 1>> \o e.message,
             [block_type |-> block_name,
              step       |-> idx + 1,
              error      |-> e.message,
              input      |-> input])

\* the dict appended to trace (execution_time left out)
TraceEntry(block_name, input, output, state) ==
    [block_type        |-> block_name,
     input             |-> input,
     output            |-> output,
     accumulated_state |-> state]

\* execute's optional progress sink: job_id (0: None), job_queue, storage
NoSink == [job_id |-> 0, job_queue |-> FALSE, storage |-> FALSE]

Sinks ==
    { NoSink,
      [job_id |-> 1, job_queue |-> TRUE, storage |-> FALSE],
      [job_id |-> 1, job_queue |-> TRUE, storage |-> TRUE] }

\* "if job_id and job_queue"
Reports == sink.job_id # 0 /\ sink.job_queue

\* exceptions the injected storage's update_job may raise
SinkExceptions ==
    { [type |-> "OperationalError", message |-> <<"database is locked">>] }

\* the keyword arguments of the progress update for block idx
ProgressUpdate(idx) ==
    [current_block |-> block_instances[idx + 1].class,
     current_step  |-> <<"Block", idx + 1, Len(block_instances)>>]

\* only one run of execute
NoFrames == << >>

\* no block class under introspection
NoClass == [pc |-> "none"]

\* no registry under construction
NoRegistry == [pc |-> "none"]

\* no JSONValidatorBlock built
NoValidator == [pc |-> "none"]

\* no server
NoApp == [pc |-> "none"]

\* no job processor thread
NoProcessor == [pc |-> "none"]

\* no database
NoStorage == << >>

----------------------------------------------------------------------------
(* State machine *)

Init ==
    /\ blocks \in SeqsUpTo(BlockDefs, MaxBlocks)
    /\ \E d \in DictsOver({0}) :
          /\ heap = << d >>
          /\ caller_before = d
    /\ initial_data = 1
    /\ block_instances = << >>
    /\ pc = "new"
    /\ accumulated_data = 0
    /\ block_input = 0
    /\ result = EmptyDict
    /\ trace = << >>
    /\ i = 0
    /\ calls = << >>
    /\ raised = NoError
    /\ sink \in Sinks
    /\ held = NoHandles
    /\ last_call = NoCall
    /\ running = 1
    /\ frames = NoFrames
    /\ proc = NoProcessor
    /\ db = NoStorage
    /\ schema = NoClass
    /\ registry = NoRegistry
    /\ validator = NoValidator
    /\ app = NoApp
    /\ IF sink.job_queue
       THEN /\ jobs = QueueCreateJob(EmptyQueue, 1, 1, 1, "running").q.jobs
            /\ active_job = 1
            /\ job_history = QueueCreateJob(EmptyQueue, 1, 1, 1, "running").q.history
       ELSE /\ jobs = EmptyQueue.jobs
            /\ active_job = EmptyQueue.active
            /\ job_history = EmptyQueue.history

\* Pipeline.__init__ / load_from_dict
Construct ==
    /\ pc = "new"
    /\ LET r == InitializeBlocks(blocks, << >>)
       IN  IF r.error.type = "None"
           THEN /\ block_instances' = r.instances
                /\ pc' = "constructed"
                /\ raised' = raised
           ELSE /\ block_instances' = << >>
                /\ pc' = "construct_failed"
                /\ raised' = r.error
    /\ UNCHANGED <<blocks, heap, initial_data, caller_before, accumulated_data,
                   block_input, result, trace, i, calls>>
    /\ UNCHANGED <<sink, qvars, envvars>>

\* execute, lines 61-67: accumulated_data = initial_data.copy(); trace = []
ExecuteBegin ==
    /\ pc = "constructed"
    /\ LET c == DictCopy(heap, initial_data)
       IN  /\ heap' = c.heap
           /\ accumulated_data' = c.addr
    /\ trace' = << >>
    /\ i' = 0
    /\ pc' = "loop"
    /\ UNCHANGED <<blocks, block_instances, initial_data, caller_before,
                   block_input, result, calls, raised>>
    /\ UNCHANGED <<sink, qvars, envvars>>

\* execute, lines 89-92: block_input = accumulated_data.copy(); block.execute
InvokeBlock ==
    /\ LET c == DictCopy(heap, accumulated_data)
       IN  /\ heap' = c.heap
           /\ block_input' = c.addr
    /\ calls' = Append(calls, i)
    /\ pc' = "await"

\* execute, lines 69-92 without a storage: next iteration up to the await of
\* block.execute, job_queue.update_job included
BlockCall ==
    /\ pc = "loop"
    /\ i < Len(block_instances)
    /\ ~(Reports /\ sink.storage)
    /\ InvokeBlock
    /\ IF Reports
       THEN SetQueue(QueueUpdateJob(Queue, sink.job_id, ProgressUpdate(i)).q)
       ELSE UNCHANGED qvars
    /\ UNCHANGED <<blocks, block_instances, initial_data, caller_before,
                   accumulated_data, result, trace, i, raised, sink, envvars>>

\* execute, lines 69-87 with a storage: next iteration up to the await of
\* storage.update_job
ReportProgress ==
    /\ pc = "loop"
    /\ i < Len(block_instances)
    /\ Reports /\ sink.storage
    /\ SetQueue(QueueUpdateJob(Queue, sink.job_id, ProgressUpdate(i)).q)
    /\ pc' = "await_storage"
    /\ UNCHANGED <<blocks, block_instances, heap, initial_data, caller_before,
                   accumulated_data, block_input, result, trace, i, calls, raised,
                   sink, envvars>>

\* execute, lines 89-92: storage.update_job returned
StorageUpdateReturns ==
    /\ pc = "await_storage"
    /\ InvokeBlock
    /\ UNCHANGED <<blocks, block_instances, initial_data, caller_before,
                   accumulated_data, result, trace, i, raised, sink, qvars, envvars>>

\* execute, lines 83-87: storage.update_job raised e, outside the try
StorageUpdateRaises(e) ==
    /\ pc = "await_storage"
    /\ raised' = PipelineError(e.type, e.message, [origin |-> "sink"])
    /\ pc' = "report_failed"
    /\ UNCHANGED <<blocks, block_instances, heap, initial_data, caller_before,
                   accumulated_data, block_input, result, trace, i, calls,
                   sink, qvars, envvars>>

\* execute, lines 93-116: block.execute returned res
BlockReturns(res) ==
    /\ pc = "await"
    /\ LET block == block_instances[i + 1]
           verr  == ValidateOutput(block, res)
       IN  IF verr.type = "None"
           THEN LET merged == [heap EXCEPT ![accumulated_data] =
                                   DictUpdate(heap[accumulated_data], res)]
                    c      == DictCopy(merged, accumulated_data)
                IN  /\ heap' = c.heap
                    /\ trace' = Append(trace,
                                  TraceEntry(block.class, block_input, res, c.addr))
                    /\ i' = i + 1
                    /\ pc' = "loop"
                    /\ raised' = raised
           ELSE /\ raised' = verr
                /\ pc' = "failed"
                /\ UNCHANGED <<heap, trace, i>>
    /\ result' = res
    /\ UNCHANGED <<blocks, block_instances, initial_data, caller_before,
                   accumulated_data, block_input, calls>>
    /\ UNCHANGED <<sink, qvars, envvars>>

\* swallowing the exception and going on with the next block
BlockRaisesContinue(e) ==
    /\ pc = "await"
    /\ i' = i + 1
    /\ pc' = "loop"
    /\ UNCHANGED <<blocks, block_instances, heap, initial_data, caller_before,
                   accumulated_data, block_input, result, trace, calls, raised>>
    /\ UNCHANGED <<sink, qvars, envvars>>

\* execute, lines 113-128: block.execute raised e
BlockRaises(e) ==
    /\ pc = "await"
    /\ raised' = HandleException(e, i, block_instances[i + 1].class, block_input)
    /\ pc' = "failed"
    /\ UNCHANGED <<blocks, block_instances, heap, initial_data, caller_before,
                   accumulated_data, block_input, result, trace, i, calls>>
    /\ UNCHANGED <<sink, qvars, envvars>>

\* execute, lines 130-131: return accumulated_data, trace, trace_id
ExecuteReturn ==
    /\ pc = "loop"
    /\ i = Len(block_instances)
    /\ pc' = "completed"
    /\ UNCHANGED <<blocks, block_instances, heap, initial_data, caller_before,
                   accumulated_data, block_input, result, trace, i, calls, raised>>
    /\ UNCHANGED <<sink, qvars, envvars>>

Next ==
    \/ Construct
    \/ ExecuteBegin
    \/ BlockCall
    \/ ReportProgress
    \/ StorageUpdateReturns
    \/ \E e \in SinkExceptions : StorageUpdateRaises(e)
    \/ \E res \in DictsOver(Vals) : BlockReturns(res)
    \/ \E e \in BlockExceptions : BlockRaises(e)
    \/ ExecuteReturn

Spec == Init /\ [][Next]_vars

----------------------------------------------------------------------------
(* Several runs of execute on one Pipeline instance, interleaved by the   *)
(* event loop at their awaits. The run that is executing has its locals   *)
(* in the engine's variables; the locals of the others wait in `frames`.  *)
(* All runs share the heap and the block instances.                       *)

Runs == {1, 2}

\* the locals of the executing run
CurrentFrame ==
    [pc               |-> pc,
     initial_data     |-> initial_data,
     caller_before    |-> caller_before,
     accumulated_data |-> accumulated_data,
     block_input      |-> block_input,
     result           |-> result,
     trace            |-> trace,
     i                |-> i,
     calls            |-> calls,
     raised           |-> raised]

\* a call of execute(initial) that has not started to run yet
NewFrame(initial, before) ==
    [pc               |-> "constructed",
     initial_data     |-> initial,
     caller_before    |-> before,
     accumulated_data |-> 0,
     block_input      |-> 0,
     result           |-> EmptyDict,
     trace            |-> << >>,
     i                |-> 0,
     calls            |-> << >>,
     raised           |-> NoError]

\* definitions of the two blocks that declare their outputs by name
ConcDefs == {d \in BlockDefs : d.type \in {"TransformerBlock", "ValidatorBlock"}
                               /\ d.config_ok}

\* what the blocks of run r return: one key each, with the value r
ConcResults(r) == {[text |-> r], [valid |-> r]}

\* what the blocks of a run raise
ConcExceptions == {e \in BlockExceptions : e.type = "RuntimeError"}

\* a constructed pipeline and one call of execute per run; the callers pass
\* the same dict object or different ones
ConcInit ==
    /\ blocks \in SeqsUpTo(ConcDefs, MaxConcBlocks)
    /\ block_instances = InitializeBlocks(blocks, << >>).instances
    /\ \E d1 \in {[text |-> 0]}, d2 \in {[valid |-> 0]} :
          /\ heap = << d1, d2 >>
          /\ caller_before = d1
          /\ \E a \in {1, 2} :
                frames = [r \in Runs \ {1} |-> NewFrame(a, << d1, d2 >>[a])]
    /\ initial_data = 1
    /\ pc = "constructed"
    /\ accumulated_data = 0
    /\ block_input = 0
    /\ result = EmptyDict
    /\ trace = << >>
    /\ i = 0
    /\ calls = << >>
    /\ raised = NoError
    /\ sink = NoSink
    /\ running = 1
    /\ jobs = EmptyQueue.jobs
    /\ active_job = EmptyQueue.active
    /\ job_history = EmptyQueue.history
    /\ held = NoHandles
    /\ last_call = NoCall
    /\ proc = NoProcessor
    /\ db = NoStorage
    /\ schema = NoClass
    /\ registry = NoRegistry
    /\ validator = NoValidator
    /\ app = NoApp

\* the event loop resumes the unfinished run r while the executing run waits
\* at an await (or has not started, or has returned)
Switch(r) ==
    /\ r \in DOMAIN frames
    /\ pc \in {"constructed", "await", "completed", "failed"}
    /\ frames[r].pc \in {"constructed", "await"}
    /\ frames' = [q \in (DOMAIN frames \ {r}) \cup {running} |->
                     IF q = running THEN CurrentFrame ELSE frames[q]]
    /\ running' = r
    /\ pc' = frames[r].pc
    /\ initial_data' = frames[r].initial_data
    /\ caller_before' = frames[r].caller_before
    /\ accumulated_data' = frames[r].accumulated_data
    /\ block_input' = frames[r].block_input
    /\ result' = frames[r].result
    /\ trace' = frames[r].trace
    /\ i' = frames[r].i
    /\ calls' = frames[r].calls
    /\ raised' = frames[r].raised
    /\ UNCHANGED <<blocks, block_instances, heap, sink, qvars, held, last_call,
                   proc, db, schema, registry, validator, app>>

ConcNext ==
    \/ ExecuteBegin
    \/ BlockCall
    \/ \E res \in ConcResults(running) : BlockReturns(res)
    \/ \E e \in ConcExceptions : BlockRaises(e)
    \/ ExecuteReturn
    \/ \E r \in Runs : Switch(r)

ConcSpec == ConcInit /\ [][ConcNext]_vars

----------------------------------------------------------------------------
(* lib/job_processor.py: the background thread running a job's batch of   *)
(* pipeline runs, next to the request handler that cancels the job.       *)
(* A call of the database may raise wherever it reaches the database;     *)
(* Storage.update_job returns before that when none of the fields it is   *)
(* given is a column of the jobs table. The seed file is taken to exist.  *)

\* seeds of the file: the repetitions of each; MaxRuns executions at most
RECURSIVE Sum(_)
Sum(xs) == IF xs = << >> THEN 0 ELSE Head(xs) + Sum(Tail(xs))

SeedFiles == {sd \in SeqsUpTo(1..MaxRuns, MaxRuns) : Sum(sd) <= MaxRuns}

\* the metadata dict of every seed
Metadata == [text |-> 0]

\* the pipeline definitions stored in the database
ProcPipelines ==
    { <<[type |-> "TransformerBlock", config_ok |-> TRUE]>>,
      <<[type |-> "TransformerBlock", config_ok |-> TRUE],
        [type |-> "ValidatorBlock", config_ok |-> TRUE]>>,
      <<[type |-> "NonExistentBlock", config_ok |-> TRUE]>> }

ProcResults == ConcResults(1)

\* columns of the jobs table that update_job writes
ValidFields == {"status", "records_generated", "records_failed", "completed_at"}

\* Storage.update_job: whether the call reaches the database
TouchesDb(updates) == (DOMAIN updates) \cap ValidFields # {}

\* Storage.update_job: the jobs row afterwards
DbUpdateJob(d, updates) ==
    [d EXCEPT !.job = [k \in DOMAIN d.job |->
                          IF k \in DOMAIN updates THEN updates[k] ELSE d.job[k]]]

\* _update_job_status: job_queue.update_job, then await storage.update_job,
\* which returns (ok) or raises having written nothing
UpdateJobStatus(updates, ok) ==
    /\ SetQueue(QueueUpdateJob(Queue, 1, updates).q)
    /\ (~ok) => TouchesDb(updates)
    /\ db' = IF ok /\ TouchesDb(updates) THEN DbUpdateJob(db, updates) ELSE db

\* generate: storage.create_job, job_queue.create_job, process_job_in_thread
ProcInit ==
    /\ blocks \in ProcPipelines
    /\ block_instances = << >>
    /\ pc = "new"
    /\ heap = << Metadata >>
    /\ initial_data = 1
    /\ caller_before = Metadata
    /\ accumulated_data = 0
    /\ block_input = 0
    /\ result = EmptyDict
    /\ trace = << >>
    /\ i = 0
    /\ calls = << >>
    /\ raised = NoError
    /\ sink = [job_id |-> 1, job_queue |-> TRUE, storage |-> TRUE]
    /\ jobs = QueueCreateJob(EmptyQueue, 1, 1, 1, "running").q.jobs
    /\ active_job = 1
    /\ job_history = QueueCreateJob(EmptyQueue, 1, 1, 1, "running").q.history
    /\ held = NoHandles
    /\ last_call = NoCall
    /\ running = 1
    /\ frames = NoFrames
    /\ schema = NoClass
    /\ registry = NoRegistry
    /\ validator = NoValidator
    /\ app = NoApp
    /\ \E sd \in SeedFiles :
          proc = [pc                |-> "start",
                  seeds             |-> sd,
                  seed              |-> 0,
                  rep               |-> 0,
                  execution_index   |-> 0,
                  records_generated |-> 0,
                  records_failed    |-> 0,
                  cause             |-> "none",
                  stopped           |-> FALSE]
    /\ \E found \in BOOLEAN :
          db = [pipeline |-> found,
                job      |-> [status |-> "running", records_generated |-> 0,
                              records_failed |-> 0, completed_at |-> "None"],
                records  |-> << >>]

\* what no step of the processor changes besides the queue, proc and db
ProcFrame == UNCHANGED <<engvars, held, last_call, running, frames, schema, registry, validator, app>>

\* lines 71-81: storage.get_pipeline; a missing pipeline marks the job failed
ProcGetPipeline(ok) ==
    /\ proc.pc = "start"
    /\ IF db.pipeline
       THEN /\ proc' = IF ok THEN [proc EXCEPT !.pc = "load"]
                      ELSE [proc EXCEPT !.pc = "except", !.cause = "load"]
            /\ UNCHANGED <<qvars, db>>
       ELSE /\ UpdateJobStatus([status |-> "failed", error |-> <<"Pipeline not found">>,
                                 completed_at |-> "now"], ok)
            /\ proc' = [proc EXCEPT !.pc = IF ok THEN "done" ELSE "except",
                                     !.cause = IF ok THEN "pipeline_not_found"
                                               ELSE "status_write"]
    /\ ProcFrame

\* line 83: WorkflowPipeline.load_from_dict returned or raised
ProcLoaded ==
    /\ proc.pc = "load"
    /\ pc \in {"constructed", "construct_failed"}
    /\ proc' = IF pc = "constructed"
               THEN [proc EXCEPT !.pc = "seed_check"]
               ELSE [proc EXCEPT !.pc = "except", !.cause = "load"]
    /\ UNCHANGED <<qvars, db>>
    /\ ProcFrame

Cancelled == 1 \in DOMAIN jobs /\ jobs[1].status = "cancelled"

\* lines 113-128: the head of the loop over the seeds and its cancellation check
ProcSeedCheck ==
    /\ proc.pc = "seed_check"
    /\ proc' = IF proc.seed = Len(proc.seeds)
               THEN [proc EXCEPT !.pc = "finish"]
               ELSE IF Cancelled
               THEN [proc EXCEPT !.pc = "finish", !.stopped = TRUE]
               ELSE [proc EXCEPT !.pc = "rep_check", !.rep = 0]
    /\ UNCHANGED <<qvars, db>>
    /\ ProcFrame

\* not looking at the job's status before a repetition
ProcRepCheckBlind ==
    /\ proc.pc = "rep_check"
    /\ proc' = IF proc.rep >= proc.seeds[proc.seed + 1]
               THEN [proc EXCEPT !.pc = "seed_check", !.seed = @ + 1]
               ELSE [proc EXCEPT !.pc = "progress", !.execution_index = @ + 1]
    /\ UNCHANGED <<qvars, db>>
    /\ ProcFrame

\* lines 130-141: the head of the loop over the repetitions and its check
ProcRepCheck ==
    /\ proc.pc = "rep_check"
    /\ proc' = IF proc.rep >= proc.seeds[proc.seed + 1]
               THEN [proc EXCEPT !.pc = "seed_check", !.seed = @ + 1]
               ELSE IF Cancelled
               THEN [proc EXCEPT !.pc = "seed_check", !.seed = @ + 1,
                                 !.execution_index = @ + 1, !.stopped = TRUE]
               ELSE [proc EXCEPT !.pc = "progress", !.execution_index = @ + 1]
    /\ UNCHANGED <<qvars, db>>
    /\ ProcFrame

Total == Sum(proc.seeds)

StepText == <<"Processing execution", proc.execution_index, Total>>

\* lines 143-159: the progress update, then pipeline.execute(metadata, ...) is
\* called; the objects of the run before are no longer referenced. The
\* division by a total of 0 raises ZeroDivisionError into the outer except
ProcProgress ==
    /\ proc.pc = "progress"
    /\ IF Total = 0
       THEN /\ proc' = [proc EXCEPT !.pc = "except", !.cause = "progress"]
            /\ UNCHANGED <<qvars, db>>
            /\ ProcFrame
       ELSE /\ UpdateJobStatus([current_seed  |-> proc.execution_index,
                                progress      |-> <<proc.execution_index, Total>>,
                                current_block |-> "None",
                                current_step  |-> StepText], TRUE)
            /\ proc' = [proc EXCEPT !.pc = "running"]
            /\ pc' = "constructed"
            /\ heap' = << Metadata >>
            /\ accumulated_data' = 0
            /\ block_input' = 0
            /\ result' = EmptyDict
            /\ trace' = << >>
            /\ i' = 0
            /\ calls' = << >>
            /\ raised' = NoError
            /\ UNCHANGED <<blocks, block_instances, initial_data, caller_before,
                           sink, held, last_call, running, frames, schema,
                           registry, validator, app>>

\* line 157: pipeline.execute returned
ProcRunReturned ==
    /\ proc.pc = "running"
    /\ pc = "completed"
    /\ proc' = [proc EXCEPT !.pc = "save"]
    /\ UNCHANGED <<qvars, db>>
    /\ ProcFrame

\* a raising run taken as the failure of the whole job
ProcRunRaisedAbort ==
    /\ proc.pc = "running"
    /\ pc \in {"failed", "report_failed"}
    /\ proc' = [proc EXCEPT !.pc = "except", !.cause = "run"]
    /\ UNCHANGED <<qvars, db>>
    /\ ProcFrame

\* lines 194-196: pipeline.execute raised; except Exception counts the run
ProcRunRaised ==
    /\ proc.pc = "running"
    /\ pc \in {"failed", "report_failed"}
    /\ proc' = [proc EXCEPT !.pc = "count_failed", !.records_failed = @ + 1]
    /\ UNCHANGED <<qvars, db>>
    /\ ProcFrame

\* lines 161-181: the record is built and storage.save_record awaited
ProcSave(ok) ==
    /\ proc.pc = "save"
    /\ IF ok
       THEN /\ db' = [db EXCEPT !.records =
                         Append(@, [execution |-> proc.execution_index,
                                    steps     |-> Len(trace)])]
            /\ proc' = [proc EXCEPT !.pc = "count_ok", !.records_generated = @ + 1]
       ELSE /\ db' = db
            /\ proc' = [proc EXCEPT !.pc = "count_failed", !.records_failed = @ + 1]
    /\ UNCHANGED qvars
    /\ ProcFrame

\* lines 183-192: the count of generated records is written, inside the try
ProcCountOk(ok) ==
    /\ proc.pc = "count_ok"
    /\ UpdateJobStatus([records_generated |-> proc.records_generated,
                        current_block     |-> "None",
                        current_step      |-> StepText], ok)
    /\ proc' = IF ok
               THEN [proc EXCEPT !.pc = "rep_check", !.rep = @ + 1]
               ELSE [proc EXCEPT !.pc = "count_failed", !.records_failed = @ + 1]
    /\ ProcFrame

\* lines 198-204: the count of failed runs is written, then continue
ProcCountFailed(ok) ==
    /\ proc.pc = "count_failed"
    /\ UpdateJobStatus([records_failed |-> proc.records_failed], ok)
    /\ proc' = IF ok
               THEN [proc EXCEPT !.pc = "rep_check", !.rep = @ + 1]
               ELSE [proc EXCEPT !.pc = "except", !.cause = "status_write"]
    /\ ProcFrame

\* lines 212-214: after the loops, the job's status is read
ProcFinishCheck ==
    /\ proc.pc = "finish"
    /\ proc' = [proc EXCEPT !.pc = IF Cancelled THEN "done" ELSE "complete"]
    /\ UNCHANGED <<qvars, db>>
    /\ ProcFrame

\* lines 215-226: the job is marked completed
ProcComplete(ok) ==
    /\ proc.pc = "complete"
    /\ UpdateJobStatus([status |-> "completed", progress |-> <<1, 1>>,
                        completed_at |-> "now"], ok)
    /\ proc' = IF ok
               THEN [proc EXCEPT !.pc = "done"]
               ELSE [proc EXCEPT !.pc = "except", !.cause = "status_write"]
    /\ ProcFrame

\* an outer except that logs the failure and leaves the job as it is
ProcExceptSilent(ok) ==
    /\ proc.pc = "except"
    /\ ok
    /\ proc' = [proc EXCEPT !.pc = "done"]
    /\ UNCHANGED <<qvars, db>>
    /\ ProcFrame

\* lines 228-241: the outer except marks the job failed; an exception of
\* this update ends the thread in _run_job_async
ProcExcept(ok) ==
    /\ proc.pc = "except"
    /\ UpdateJobStatus([status |-> "failed", error |-> <<proc.cause>>,
                        completed_at |-> "now"], ok)
    /\ proc' = [proc EXCEPT !.pc = "done"]
    /\ ProcFrame

\* app.cancel_job (DELETE /jobs/{job_id}), in the server's thread
ProcCancel(ok) ==
    /\ ~Cancelled
    /\ proc.pc # "done"
    /\ SetQueue(QueueCancelJob(Queue, 1).q)
    /\ db' = IF ok THEN DbUpdateJob(db, [status |-> "cancelled"]) ELSE db
    /\ UNCHANGED proc
    /\ ProcFrame

\* the steps of the job thread
ProcThread ==
    \/ \E ok \in BOOLEAN : ProcGetPipeline(ok)
    \/ proc.pc = "load" /\ Construct
    \/ ProcLoaded
    \/ ProcSeedCheck
    \/ ProcRepCheck
    \/ ProcProgress
    \/ proc.pc = "running" /\ ExecuteBegin
    \/ proc.pc = "running" /\ ReportProgress
    \/ proc.pc = "running" /\ StorageUpdateReturns
    \/ proc.pc = "running" /\ \E res \in ProcResults : BlockReturns(res)
    \/ proc.pc = "running" /\ \E e \in ConcExceptions : BlockRaises(e)
    \/ proc.pc = "running" /\ ExecuteReturn
    \/ ProcRunReturned
    \/ ProcRunRaised
    \/ \E ok \in BOOLEAN : ProcSave(ok)
    \/ \E ok \in BOOLEAN : ProcCountOk(ok)
    \/ \E ok \in BOOLEAN : ProcCountFailed(ok)
    \/ ProcFinishCheck
    \/ \E ok \in BOOLEAN : ProcComplete(ok)
    \/ \E ok \in BOOLEAN : ProcExcept(ok)

ProcNext ==
    \/ ProcThread
    \/ \E ok \in BOOLEAN : ProcCancel(ok)

ProcSpec == ProcInit /\ [][ProcNext]_vars

\* the job thread keeps running: every block execution and every storage
\* call it waits for returns or raises
FairProcSpec == ProcSpec /\ WF_vars(ProcThread)

\* the repetitions of a seed as the file gives it: an int, or something else
\* (a string, a float, null)
RawRepetitions ==
    {[int |-> TRUE, n |-> n] : n \in -1..MaxRuns} \cup {[int |-> FALSE, n |-> 0]}

\* lines 123-125 and 96-99: repetitions that is not an int counts as 1
Repetitions(raw) == IF raw.int THEN raw.n ELSE 1

\* the number of runs of a file: range(repetitions) of each seed
RECURSIVE RunsOf(_)
RunsOf(sd) ==
    IF sd = << >> THEN 0
    ELSE (IF Head(sd) > 0 THEN Head(sd) ELSE 0) + RunsOf(Tail(sd))

\* the seed files /generate accepts: objects with metadata, any repetitions;
\* MaxRuns executions at most
AcceptedSeedFiles ==
    {file \in SeqsUpTo(RawRepetitions, MaxRuns) :
        RunsOf([k \in 1..Len(file) |-> Repetitions(file[k])]) <= MaxRuns}

\* a job whose pipeline is stored, on any accepted seed file
ProgInit ==
    /\ blocks = <<[type |-> "TransformerBlock", config_ok |-> TRUE]>>
    /\ block_instances = << >>
    /\ pc = "new"
    /\ heap = << Metadata >>
    /\ initial_data = 1
    /\ caller_before = Metadata
    /\ accumulated_data = 0
    /\ block_input = 0
    /\ result = EmptyDict
    /\ trace = << >>
    /\ i = 0
    /\ calls = << >>
    /\ raised = NoError
    /\ sink = [job_id |-> 1, job_queue |-> TRUE, storage |-> TRUE]
    /\ jobs = QueueCreateJob(EmptyQueue, 1, 1, 1, "running").q.jobs
    /\ active_job = 1
    /\ job_history = QueueCreateJob(EmptyQueue, 1, 1, 1, "running").q.history
    /\ held = NoHandles
    /\ last_call = NoCall
    /\ running = 1
    /\ frames = NoFrames
    /\ schema = NoClass
    /\ registry = NoRegistry
    /\ validator = NoValidator
    /\ app = NoApp
    /\ \E file \in AcceptedSeedFiles :
          proc = [pc                |-> "start",
                  file              |-> file,
                  seeds             |-> [k \in 1..Len(file) |-> Repetitions(file[k])],
                  seed              |-> 0,
                  rep               |-> 0,
                  execution_index   |-> 0,
                  records_generated |-> 0,
                  records_failed    |-> 0,
                  cause             |-> "none",
                  stopped           |-> FALSE]
    /\ db = [pipeline |-> TRUE,
             job      |-> [status |-> "running", records_generated |-> 0,
                           records_failed |-> 0, completed_at |-> "None"],
             records  |-> << >>]

ProgSpec == ProgInit /\ [][ProcNext]_vars

----------------------------------------------------------------------------
(* State machine of the job queue alone, driven by its callers *)

JobIds == 1..MaxJobs
PipelineIds == {1, 2}
QUpdates == {[status |-> st] : st \in {"running"} \cup TerminalStatuses}

\* no pipeline is being run
EngineIdle ==
    /\ blocks = << >>
    /\ block_instances = << >>
    /\ pc = "new"
    /\ heap = << EmptyDict >>
    /\ initial_data = 1
    /\ caller_before = EmptyDict
    /\ accumulated_data = 0
    /\ block_input = 0
    /\ result = EmptyDict
    /\ trace = << >>
    /\ i = 0
    /\ calls = << >>
    /\ raised = NoError
    /\ sink = NoSink

QInit ==
    /\ EngineIdle
    /\ jobs = EmptyQueue.jobs
    /\ active_job = EmptyQueue.active
    /\ job_history = EmptyQueue.history
    /\ held = NoHandles
    /\ last_call = NoCall
    /\ running = 1
    /\ frames = NoFrames
    /\ proc = NoProcessor
    /\ db = NoStorage
    /\ schema = NoClass
    /\ registry = NoRegistry
    /\ validator = NoValidator
    /\ app = NoApp

\* Each caller (a request handler) makes its calls and returns: the references
\* it got from the getters are gone when the next caller changes the queue.

\* job_queue.create_job(job_id, pipeline_id, total_seeds, status) with the id
\* storage.create_job gave
QCreateJob(job_id, pipeline_id) ==
    /\ job_id \notin DOMAIN jobs
    /\ LET r == QueueCreateJob(Queue, job_id, pipeline_id, 1, "running")
       IN  /\ SetQueue(r.q)
           /\ last_call' = Call("create_job", job_id, << >>,
                                 IF r.raises THEN "RuntimeError" ELSE "None")
    /\ held' = NoHandles
    /\ UNCHANGED <<engvars, running, frames, proc, db, schema, registry, validator, app>>

QUpdateJob(job_id, updates) ==
    /\ LET r == QueueUpdateJob(Queue, job_id, updates)
       IN  /\ SetQueue(r.q)
           /\ last_call' = Call("update_job", job_id, updates, Bool(r.ret))
    /\ held' = NoHandles
    /\ UNCHANGED <<engvars, running, frames, proc, db, schema, registry, validator, app>>

QCancelJob(job_id) ==
    /\ LET r == QueueCancelJob(Queue, job_id)
       IN  /\ SetQueue(r.q)
           /\ last_call' = Call("cancel_job", job_id, << >>, Bool(r.ret))
    /\ held' = NoHandles
    /\ UNCHANGED <<engvars, running, frames, proc, db, schema, registry, validator, app>>

QDeleteJob(job_id) ==
    /\ LET r == QueueDeleteJob(Queue, job_id)
       IN  /\ SetQueue(r.q)
           /\ last_call' = Call("delete_job", job_id, << >>, Bool(r.ret))
    /\ held' = NoHandles
    /\ UNCHANGED <<engvars, running, frames, proc, db, schema, registry, validator, app>>

QGetJob(job_id) ==
    /\ held' = QueueGetJob(Queue, job_id)
    /\ last_call' = Call("get_job", job_id, << >>, "None")
    /\ UNCHANGED <<engvars, qvars, running, frames, proc, db, schema, registry, validator, app>>

QGetPipelineHistory(pipeline_id) ==
    /\ held' = QueueGetPipelineHistory(Queue, pipeline_id)
    /\ last_call' = Call("get_pipeline_history", pipeline_id, << >>, "None")
    /\ UNCHANGED <<engvars, qvars, running, frames, proc, db, schema, registry, validator, app>>

\* the caller's  entry["status"] = "mutated"  on the k-th dict it holds
QMutateHeld(k) ==
    /\ k \in DOMAIN held
    /\ jobs' = [jobs EXCEPT ![held[k].job_id].status = "mutated"]
    /\ last_call' = Call("mutate", held[k].job_id, << >>, "None")
    /\ UNCHANGED <<engvars, active_job, job_history, held, running, frames,
                   proc, db, schema, registry, validator, app>>

QNext ==
    \/ \E job_id \in JobIds, pipeline_id \in PipelineIds :
          QCreateJob(job_id, pipeline_id)
    \/ \E job_id \in JobIds, updates \in QUpdates : QUpdateJob(job_id, updates)
    \/ \E job_id \in JobIds : QCancelJob(job_id)
    \/ \E job_id \in JobIds : QDeleteJob(job_id)
    \/ \E job_id \in JobIds : QGetJob(job_id)
    \/ \E pipeline_id \in PipelineIds : QGetPipelineHistory(pipeline_id)
    \/ \E k \in 1..MaxJobs : QMutateHeld(k)

QSpec == QInit /\ [][QNext]_vars

----------------------------------------------------------------------------
(* Schema introspection of one block class *)

SchemaInit ==
    /\ EngineIdle
    /\ jobs = EmptyQueue.jobs
    /\ active_job = EmptyQueue.active
    /\ job_history = EmptyQueue.history
    /\ held = NoHandles
    /\ last_call = NoCall
    /\ running = 1
    /\ frames = NoFrames
    /\ proc = NoProcessor
    /\ db = NoStorage
    /\ registry = NoRegistry
    /\ validator = NoValidator
    /\ app = NoApp
    /\ \E sig \in Signatures, build \in Builds :
          schema = [pc |-> "class", init |-> sig, build |-> build,
                    asked |-> {}, log |-> << >>]

\* the calls made on the class and on the registry, in order
SchemaCalls == {"get_schema", "get_config_schema", "list_blocks", "get_block_class"}

Called(name) ==
    [schema EXCEPT !.asked = @ \cup {name}, !.log = Append(@, name)]

\* cls.get_schema()
GetSchema ==
    /\ schema.pc = "class"
    /\ Len(schema.log) < MaxCalls
    /\ schema' = ("config_schema" :> BaseConfigSchema(schema.init))
                 @@ Called("get_schema")
    /\ UNCHANGED <<engvars, qvars, held, last_call, running, frames, proc, db,
                   registry, validator, app>>

\* a deriver whose required list outlives the call
DeriveConfigSchemaShared ==
    /\ schema.pc = "class"
    /\ Len(schema.log) < MaxCalls
    /\ LET fresh == GetConfigSchema(schema.init, schema.build)
           kept  == IF "derived" \in DOMAIN schema
                    THEN schema.derived.required ELSE << >>
       IN  schema' = ("derived" :> [fresh EXCEPT !.required = kept \o @])
                     @@ Called("get_config_schema")
    /\ UNCHANGED <<engvars, qvars, held, last_call, running, frames, proc, db,
                   registry, validator, app>>

\* BlockConfigSchema.get_config_schema(cls)
DeriveConfigSchema ==
    /\ schema.pc = "class"
    /\ Len(schema.log) < MaxCalls
    /\ schema' = ("derived" :> GetConfigSchema(schema.init, schema.build))
                 @@ Called("get_config_schema")
    /\ UNCHANGED <<engvars, qvars, held, last_call, running, frames, proc, db,
                   registry, validator, app>>

\* registry.list_blocks(): get_schema() of every registered class
ListBlocks ==
    /\ schema.pc = "class"
    /\ Len(schema.log) < MaxCalls
    /\ schema' = ("listing" :> <<BaseConfigSchema(schema.init)>>)
                 @@ Called("list_blocks")
    /\ UNCHANGED <<engvars, qvars, held, last_call, running, frames, proc, db,
                   registry, validator, app>>

\* registry.get_block_class(block_type): the class itself
GetBlockClass ==
    /\ schema.pc = "class"
    /\ Len(schema.log) < MaxCalls
    /\ schema' = Called("get_block_class")
    /\ UNCHANGED <<engvars, qvars, held, last_call, running, frames, proc, db,
                   registry, validator, app>>

SchemaNext ==
    \/ GetSchema
    \/ DeriveConfigSchema
    \/ ListBlocks
    \/ GetBlockClass

SchemaSpec == SchemaInit /\ [][SchemaNext]_vars

----------------------------------------------------------------------------
(* The deriver applied to one declared type *)

TypeInit ==
    /\ EngineIdle
    /\ jobs = EmptyQueue.jobs
    /\ active_job = EmptyQueue.active
    /\ job_history = EmptyQueue.history
    /\ held = NoHandles
    /\ last_call = NoCall
    /\ running = 1
    /\ frames = NoFrames
    /\ proc = NoProcessor
    /\ db = NoStorage
    /\ registry = NoRegistry
    /\ validator = NoValidator
    /\ app = NoApp
    /\ \E t \in Types(MaxTypeDepth), build \in Builds :
          schema = [pc |-> "type", param_type |-> t, build |-> build, asked |-> {}]

\* BlockConfigSchema._get_property_def(param_type)
DerivePropertyDef ==
    /\ schema.pc = "type"
    /\ schema.asked = {}
    /\ schema' = [schema EXCEPT !.asked = {"_get_property_def"}] @@
                  ("property_def" :> GetPropertyDef(schema.param_type, schema.build))
    /\ UNCHANGED <<engvars, qvars, held, last_call, running, frames, proc, db,
                   registry, validator, app>>

TypeNext == DerivePropertyDef

TypeSpec == TypeInit /\ [][TypeNext]_vars

----------------------------------------------------------------------------
(* lib/blocks/builtin/json_validator.py *)

\* Python values: t is the type, s the text of a scalar or the key of a dict
\* member, v the items of a list, the members of a dict, the value of a member
PyInt == [t |-> "int", s |-> "1", v |-> << >>]
PyNone == [t |-> "NoneType", s |-> "null", v |-> << >>]
PyStr(str) == [t |-> "str", s |-> str, v |-> << >>]
PyList(items) == [t |-> "list", s |-> "", v |-> items]
PyMember(key, value) == [t |-> "member", s |-> key, v |-> <<value>>]
PyDict(members) == [t |-> "dict", s |-> "", v |-> members]

JsonKeys == <<"name", "email">>

JsonScalars == {PyInt, PyNone} \cup {PyStr(JsonKeys[k]) : k \in 1..Len(JsonKeys)}

\* JSON values nested up to depth n: lists of up to two items, objects over
\* JsonKeys in their order
RECURSIVE JsonValues(_)
JsonValues(n) ==
    IF n = 0 THEN JsonScalars
    ELSE LET below == JsonValues(n - 1)
         IN  below
             \cup {PyList(items) : items \in UNION {[1..m -> below] : m \in 0..2}}
             \cup {PyDict(<< >>)}
             \cup {PyDict(<<PyMember(JsonKeys[k], x)>>) :
                      k \in 1..Len(JsonKeys), x \in below}
             \cup {PyDict(<<PyMember(JsonKeys[1], x), PyMember(JsonKeys[2], y)>>) :
                      x \in below, y \in below}

\* a text is its sequence of tokens; "fence json", "fence" and "quote" are
\* the code-fence markers and the double quote
Quoted(str) == <<"quote", str, "quote">>

RECURSIVE Dumps(_)
RECURSIVE DumpsAll(_, _)
\* json.dumps
Dumps(value) ==
    IF value.t = "int" \/ value.t = "NoneType" THEN <<value.s>>
    ELSE IF value.t = "str" THEN Quoted(value.s)
    ELSE IF value.t = "member" THEN Quoted(value.s) \o <<":">> \o Dumps(value.v[1])
    ELSE IF value.t = "list" THEN <<"[">> \o DumpsAll(value.v, 1) \o <<"]">>
    ELSE <<"{">> \o DumpsAll(value.v, 1) \o <<"}">>

DumpsAll(values, k) ==
    IF k > Len(values) THEN << >>
    ELSE Dumps(values[k])
         \o (IF k < Len(values) THEN <<",">> ELSE << >>)
         \o DumpsAll(values, k + 1)

Fenced(text) == <<"fence json">> \o text \o <<"fence">>

NoParse == [ok |-> FALSE, value |-> PyNone, next |-> 0]

RECURSIVE ParseValue(_, _)
RECURSIVE ParseItems(_, _, _)
RECURSIVE ParseMembers(_, _, _)
\* the JSON decoder: the value that starts at token p and the position after
ParseValue(toks, p) ==
    IF p > Len(toks) THEN NoParse
    ELSE IF toks[p] = "1" THEN [ok |-> TRUE, value |-> PyInt, next |-> p + 1]
    ELSE IF toks[p] = "null" THEN [ok |-> TRUE, value |-> PyNone, next |-> p + 1]
    ELSE IF toks[p] = "quote"
    THEN IF p + 2 <= Len(toks) /\ toks[p + 2] = "quote"
         THEN [ok |-> TRUE, value |-> PyStr(toks[p + 1]), next |-> p + 3]
         ELSE NoParse
    ELSE IF toks[p] = "["
    THEN IF p + 1 <= Len(toks) /\ toks[p + 1] = "]"
         THEN [ok |-> TRUE, value |-> PyList(<< >>), next |-> p + 2]
         ELSE ParseItems(toks, p + 1, << >>)
    ELSE IF toks[p] = "{"
    THEN IF p + 1 <= Len(toks) /\ toks[p + 1] = "}"
         THEN [ok |-> TRUE, value |-> PyDict(<< >>), next |-> p + 2]
         ELSE ParseMembers(toks, p + 1, << >>)
    ELSE NoParse

ParseItems(toks, p, items) ==
    LET item == ParseValue(toks, p)
    IN  IF ~item.ok \/ item.next > Len(toks) THEN NoParse
        ELSE IF toks[item.next] = ","
        THEN ParseItems(toks, item.next + 1, Append(items, item.value))
        ELSE IF toks[item.next] = "]"
        THEN [ok |-> TRUE, value |-> PyList(Append(items, item.value)),
              next |-> item.next + 1]
        ELSE NoParse

ParseMembers(toks, p, members) ==
    LET key   == ParseValue(toks, p)
        value == IF key.ok /\ key.next <= Len(toks) /\ toks[key.next] = ":"
                 THEN ParseValue(toks, key.next + 1) ELSE NoParse
        \* a repeated key replaces the earlier member
        kept  == SelectSeq(members, LAMBDA m : m.s # key.value.s)
        all   == Append(kept, PyMember(key.value.s, value.value))
    IN  IF ~key.ok \/ key.value.t # "str" THEN NoParse
        ELSE IF ~value.ok \/ value.next > Len(toks) THEN NoParse
        ELSE IF toks[value.next] = ","
        THEN ParseMembers(toks, value.next + 1, all)
        ELSE IF toks[value.next] = "}"
        THEN [ok |-> TRUE, value |-> PyDict(all), next |-> value.next + 1]
        ELSE NoParse

\* json.loads: the whole text is one value
Loads(toks) ==
    LET parsed == ParseValue(toks, 1)
    IN  IF parsed.ok /\ parsed.next = Len(toks) + 1 THEN parsed
        ELSE NoParse

\* re.sub(r"^```(?:json)?\s*\n?(.*?)\n?```\s*$", r"\1", ...).strip()
StripFence(toks) ==
    IF Len(toks) >= 2 /\ toks[1] \in {"fence", "fence json"} /\ toks[Len(toks)] = "fence"
    THEN SubSeq(toks, 2, Len(toks) - 1)
    ELSE toks

\* a str as execute receives it
PyText(toks) == [t |-> "text", s |-> "", v |-> toks]

\* data.get(self.field_name, "")
NoField == [t |-> "missing", s |-> "", v |-> << >>]

\* field in parsed: keys of a dict, items of a list, substrings of a str
\* (none of the modelled strings is part of another); [ok |-> FALSE] is the
\* TypeError of a value that is no container
Contains(parsed, field) ==
    IF parsed.t = "dict"
    THEN [ok |-> TRUE, found |-> \E k \in 1..Len(parsed.v) : parsed.v[k].s = field]
    ELSE IF parsed.t = "list"
    THEN [ok |-> TRUE, found |-> \E k \in 1..Len(parsed.v) : parsed.v[k] = PyStr(field)]
    ELSE IF parsed.t = "str"
    THEN [ok |-> TRUE, found |-> parsed.s = field]
    ELSE [ok |-> FALSE, found |-> FALSE]

Returned(valid, parsed_json) ==
    [raised |-> "None", valid |-> valid, parsed_json |-> parsed_json]

Raised(type) == [raised |-> type, valid |-> FALSE, parsed_json |-> PyNone]

\* the checks of the required fields, in order, up to the first that raises
RECURSIVE MissingFields(_, _, _)
MissingFields(required_fields, parsed, k) ==
    IF k > Len(required_fields) THEN [ok |-> TRUE, missing |-> FALSE]
    ELSE LET has  == Contains(parsed, required_fields[k])
             rest == MissingFields(required_fields, parsed, k + 1)
         IN  IF ~has.ok THEN [ok |-> FALSE, missing |-> FALSE]
             ELSE IF ~rest.ok THEN rest
             ELSE [ok |-> TRUE, missing |-> ~has.found \/ rest.missing]

\* the end of execute: required fields, then the result
ValidateParsed(block, parsed) ==
    LET checked == MissingFields(block.required_fields, parsed, 1)
    IN  IF block.required_fields # << >> /\ ~checked.ok THEN Raised("TypeError")
        ELSE IF block.required_fields # << >> /\ checked.missing
        THEN Returned(FALSE, PyNone)
        ELSE Returned(TRUE, parsed)

\* JSONValidatorBlock.execute, field_output being data.get(self.field_name, "")
JsonValidatorExecute(block, field_value) ==
    LET field_output == IF field_value = NoField THEN PyText(<< >>) ELSE field_value
    IN  IF field_output.t \in {"dict", "list"}
        THEN ValidateParsed(block, field_output)
        ELSE IF field_output.t # "text" THEN Raised("TypeError")
        ELSE LET loaded == Loads(StripFence(field_output.v))
             IN  IF ~loaded.ok
                 THEN IF block.strict THEN Raised("ValueError")
                      ELSE Returned(FALSE, PyNone)
                 ELSE ValidateParsed(block, loaded.value)

\* JSONValidatorBlock(field_name, required_fields, strict)
ValidatorBlocks ==
    [required_fields : {<< >>, <<"name">>, <<"name", "email">>}, strict : BOOLEAN]

\* texts: a value written out, bare or fenced, whole or cut short
Texts ==
    LET whole == {Dumps(value) : value \in JsonValues(MaxJsonDepth)}
        cut   == {SubSeq(text, 1, Len(text) - 1) : text \in whole}
        bare  == whole \cup cut \cup {<<"not", "json">>}
    IN  bare \cup {Fenced(text) : text \in bare}
             \cup {<<"fence json">> \o text : text \in whole}

\* what the designated field may hold
FieldValues ==
    {NoField} \cup {PyText(text) : text \in Texts} \cup JsonValues(MaxJsonDepth)

ValidatorInit ==
    /\ EngineIdle
    /\ jobs = EmptyQueue.jobs
    /\ active_job = EmptyQueue.active
    /\ job_history = EmptyQueue.history
    /\ held = NoHandles
    /\ last_call = NoCall
    /\ running = 1
    /\ frames = NoFrames
    /\ proc = NoProcessor
    /\ db = NoStorage
    /\ schema = NoClass
    /\ registry = NoRegistry
    /\ app = NoApp
    /\ \E block \in ValidatorBlocks, field_value \in FieldValues :
          validator = [pc |-> "built", block |-> block, field |-> field_value]

\* await block.execute(data)
ValidatorExecute ==
    /\ validator.pc = "built"
    /\ validator' = [pc |-> "executed", block |-> validator.block,
                     field |-> validator.field,
                     result |-> JsonValidatorExecute(validator.block, validator.field)]
    /\ UNCHANGED <<engvars, qvars, held, last_call, running, frames, proc, db,
                   schema, registry, app>>

ValidatorNext == ValidatorExecute

ValidatorSpec == ValidatorInit /\ [][ValidatorNext]_vars

----------------------------------------------------------------------------
(* lib/blocks/registry.py: discovery *)

\* names of the block classes a module may define, as getmembers orders them
ClassNames == <<"ABlock", "BBlock">>

\* what importing a module does
Loads_ok == "ok"
ImportOutcomes == {Loads_ok, "SyntaxError", "ImportError"}

\* a *.py file of a scanned directory: whether its name starts with "_",
\* what importing it does, and the classes its text defines besides the
\* BaseBlock it imports
Modules ==
    [hidden : BOOLEAN, load : ImportOutcomes, classes : SUBSET {1, 2}]

\* the files of the existing scan directories, in the order glob gives them
Candidates == UNION {[1..m -> Modules] : m \in 0..MaxModules}

\* inspect.getmembers(module, inspect.isclass): sorted by name, BaseBlock
\* among them; a class is its name and the module that defines it
GetMembers(modules, j) ==
    SelectSeq([k \in 1..Len(ClassNames) |->
                  [name |-> ClassNames[k], module |-> j]],
              LAMBDA cls : \E k \in modules[j].classes : ClassNames[k] = cls.name)
    \o <<[name |-> "BaseBlock", module |-> 0]>>

BaseBlockClass == [name |-> "BaseBlock", module |-> 0]

\* self._blocks[key] = obj on a dict kept as its items in insertion order
DictSet(items, key, obj) ==
    IF \E k \in 1..Len(items) : items[k].key = key
    THEN [k \in 1..Len(items) |->
             IF items[k].key = key THEN [key |-> key, obj |-> obj] ELSE items[k]]
    ELSE Append(items, [key |-> key, obj |-> obj])

\* the loop over the members of one imported module
RECURSIVE RegisterMembers(_, _, _)
RegisterMembers(items, members, k) ==
    IF k > Len(members) THEN items
    ELSE RegisterMembers(
             IF members[k] # BaseBlockClass
             THEN DictSet(items, members[k].name, members[k])
             ELSE items,
             members, k + 1)

NoneClass == [name |-> "None", module |-> 0]

\* BlockRegistry.get_block_class
RegistryGetBlockClass(items, block_type) ==
    IF \E k \in 1..Len(items) : items[k].key = block_type
    THEN (CHOOSE item \in {items[k] : k \in 1..Len(items)} :
              item.key = block_type).obj
    ELSE NoneClass

\* BlockRegistry.list_blocks: the "type" of each schema, cls.__name__
RegistryListBlocks(items) == [k \in 1..Len(items) |-> items[k].obj.name]

RegistryInit ==
    /\ EngineIdle
    /\ jobs = EmptyQueue.jobs
    /\ active_job = EmptyQueue.active
    /\ job_history = EmptyQueue.history
    /\ held = NoHandles
    /\ last_call = NoCall
    /\ running = 1
    /\ frames = NoFrames
    /\ proc = NoProcessor
    /\ db = NoStorage
    /\ schema = NoClass
    /\ validator = NoValidator
    /\ app = NoApp
    /\ \E modules \in Candidates :
          registry = [pc |-> "discover", modules |-> modules, scanned |-> 0,
                      _blocks |-> << >>, raised |-> "None"]

RegistryFrame ==
    UNCHANGED <<engvars, qvars, held, last_call, running, frames, proc, db,
                schema, validator, app>>

\* a discovery without the try around the import
DiscoverModuleUnguarded ==
    /\ registry.pc = "discover"
    /\ registry.scanned < Len(registry.modules)
    /\ LET j      == registry.scanned + 1
           module == registry.modules[j]
       IN  registry' =
             IF module.hidden
             THEN [registry EXCEPT !.scanned = j]
             ELSE IF module.load # Loads_ok
             THEN [registry EXCEPT !.scanned = j, !.pc = "raised",
                                   !.raised = module.load]
             ELSE [registry EXCEPT !.scanned = j,
                      !._blocks = RegisterMembers(@, GetMembers(registry.modules, j), 1)]
    /\ RegistryFrame

\* _discover_blocks: one pass of the loop over the files
DiscoverModule ==
    /\ registry.pc = "discover"
    /\ registry.scanned < Len(registry.modules)
    /\ LET j      == registry.scanned + 1
           module == registry.modules[j]
       IN  registry' =
             IF module.hidden \/ module.load # Loads_ok
             THEN [registry EXCEPT !.scanned = j]
             ELSE [registry EXCEPT !.scanned = j,
                      !._blocks = RegisterMembers(@, GetMembers(registry.modules, j), 1)]
    /\ RegistryFrame

\* BlockRegistry() returns
DiscoveryDone ==
    /\ registry.pc = "discover"
    /\ registry.scanned = Len(registry.modules)
    /\ registry' = [registry EXCEPT !.pc = "built"]
    /\ RegistryFrame

\* get_block_class of every name and list_blocks on the built registry
RegistryQuery ==
    /\ registry.pc = "built"
    /\ registry' = [pc |-> "queried", modules |-> registry.modules,
                    scanned |-> registry.scanned, _blocks |-> registry._blocks,
                    raised |-> registry.raised,
                    got |-> [k \in 1..Len(ClassNames) |->
                               RegistryGetBlockClass(registry._blocks, ClassNames[k])],
                    listed |-> RegistryListBlocks(registry._blocks)]
    /\ RegistryFrame

RegistryNext ==
    \/ DiscoverModule
    \/ DiscoveryDone
    \/ RegistryQuery

RegistrySpec == RegistryInit /\ [][RegistryNext]_vars

----------------------------------------------------------------------------
(* app.py: /generate requests, the job threads they start, cancel and delete *)

Requests == 1..MaxRequests

\* JobQueue.get_active_job
QueueGetActiveJob(q) ==
    IF q.active = 0 THEN << >> ELSE QueueGetJob(q, q.active)

\* Storage.create_job: INSERT INTO jobs; ids are AUTOINCREMENT
DbCreateJob(d, status) ==
    LET job_id == d.last_id + 1
    IN  [jobs    |-> [j \in (DOMAIN d.jobs) \cup {job_id} |->
                         IF j = job_id THEN [status |-> status] ELSE d.jobs[j]],
         last_id |-> job_id]

\* Storage.update_job(job_id, status=...): UPDATE jobs ... WHERE id = ?
DbSetStatus(d, job_id, status) ==
    IF job_id \in DOMAIN d.jobs
    THEN [d EXCEPT !.jobs[job_id].status = status]
    ELSE d

\* Storage.delete_all_records(job_id): DELETE FROM jobs WHERE id = ?
DbDeleteJob(d, job_id) ==
    [d EXCEPT !.jobs = [j \in (DOMAIN d.jobs) \ {job_id} |-> d.jobs[j]]]

AppInit ==
    /\ EngineIdle
    /\ jobs = EmptyQueue.jobs
    /\ active_job = EmptyQueue.active
    /\ job_history = EmptyQueue.history
    /\ held = NoHandles
    /\ last_call = NoCall
    /\ running = 1
    /\ frames = NoFrames
    /\ proc = NoProcessor
    /\ schema = NoClass
    /\ registry = NoRegistry
    /\ validator = NoValidator
    /\ db = [jobs |-> << >>, last_id |-> 0]
    /\ app = [pc       |-> "serving",
              requests |-> [r \in Requests |-> [pc |-> "new", job_id |-> 0]],
              threads  |-> << >>]

AppFrame ==
    UNCHANGED <<engvars, held, last_call, running, frames, proc, schema,
                registry, validator>>

\* generate, lines 91-102: the file name is checked, then the active job
GenCheck(r) ==
    /\ app.requests[r].pc = "new"
    /\ app' = [app EXCEPT !.requests[r].pc =
                  IF QueueGetActiveJob(Queue) # << >> THEN "conflict" ELSE "checked"]
    /\ UNCHANGED <<qvars, db>>
    /\ AppFrame

\* generate, lines 104-153: await file.read(), then the seed file is parsed,
\* validated and written to a temporary file
GenParse(r, valid) ==
    /\ app.requests[r].pc = "checked"
    /\ app' = [app EXCEPT !.requests[r].pc =
                  IF valid THEN "parsed" ELSE "bad_request"]
    /\ UNCHANGED <<qvars, db>>
    /\ AppFrame

\* generate, line 156: await storage.create_job(...)
GenInsert(r) ==
    /\ app.requests[r].pc = "parsed"
    /\ db' = DbCreateJob(db, "running")
    /\ app' = [app EXCEPT !.requests[r] = [pc |-> "inserted", job_id |-> db'.last_id]]
    /\ UNCHANGED qvars
    /\ AppFrame

\* generate, lines 158-164: job_queue.create_job, which may raise, then
\* process_job_in_thread and the response
GenRegister(r) ==
    /\ app.requests[r].pc = "inserted"
    /\ LET job_id  == app.requests[r].job_id
           created == QueueCreateJob(Queue, job_id, 1, 1, "running")
       IN  /\ SetQueue(created.q)
           /\ app' = IF created.raises
                     THEN [app EXCEPT !.requests[r].pc = "error"]
                     ELSE [app EXCEPT !.requests[r].pc = "accepted",
                                      !.threads = (job_id :> [pc |-> "check", left |-> MaxRuns])
                                                  @@ @]
    /\ UNCHANGED db
    /\ AppFrame

\* _process_job, lines 113-141: the cancellation check before a run
ThreadCheck(job_id) ==
    /\ job_id \in DOMAIN app.threads
    /\ app.threads[job_id].pc = "check"
    /\ app' = [app EXCEPT !.threads[job_id].pc =
                  IF app.threads[job_id].left = 0 THEN "finish"
                  ELSE IF job_id \in DOMAIN jobs /\ jobs[job_id].status = "cancelled"
                  THEN "finish"
                  ELSE "executing"]
    /\ UNCHANGED <<qvars, db>>
    /\ AppFrame

\* _process_job, lines 157-204: pipeline.execute returned or raised and the
\* run was counted
ThreadExecuted(job_id) ==
    /\ job_id \in DOMAIN app.threads
    /\ app.threads[job_id].pc = "executing"
    /\ app' = [app EXCEPT !.threads[job_id] = [pc |-> "check", left |-> @.left - 1]]
    /\ UNCHANGED <<qvars, db>>
    /\ AppFrame

\* _process_job, lines 212-214: the final read of the status
ThreadFinish(job_id) ==
    /\ job_id \in DOMAIN app.threads
    /\ app.threads[job_id].pc = "finish"
    /\ app' = [app EXCEPT !.threads[job_id].pc =
                  IF job_id \in DOMAIN jobs /\ jobs[job_id].status # "cancelled"
                  THEN "complete" ELSE "done"]
    /\ UNCHANGED <<qvars, db>>
    /\ AppFrame

\* _process_job, lines 215-226: the job is marked completed in both stores
ThreadComplete(job_id) ==
    /\ job_id \in DOMAIN app.threads
    /\ app.threads[job_id].pc = "complete"
    /\ SetQueue(QueueUpdateJob(Queue, job_id,
                               [status |-> "completed", completed_at |-> "now"]).q)
    /\ db' = DbSetStatus(db, job_id, "completed")
    /\ app' = [app EXCEPT !.threads[job_id].pc = "done"]
    /\ AppFrame

\* DELETE /jobs/{job_id}: cancel_job in the queue, then the row
AppCancelJob(job_id) ==
    /\ job_id \in 1..db.last_id
    /\ LET cancelled == QueueCancelJob(Queue, job_id)
       IN  /\ SetQueue(cancelled.q)
           /\ db' = IF cancelled.ret THEN DbSetStatus(db, job_id, "cancelled") ELSE db
    /\ UNCHANGED app
    /\ AppFrame

\* DELETE /records?job_id=...: the row is deleted, then delete_job in the queue
AppDeleteRecords(job_id) ==
    /\ job_id \in 1..db.last_id
    /\ db' = DbDeleteJob(db, job_id)
    /\ SetQueue(QueueDeleteJob(Queue, job_id).q)
    /\ UNCHANGED app
    /\ AppFrame

AppNext ==
    \/ \E r \in Requests : GenCheck(r)
    \/ \E r \in Requests, valid \in BOOLEAN : GenParse(r, valid)
    \/ \E r \in Requests : GenInsert(r)
    \/ \E r \in Requests : GenRegister(r)
    \/ \E job_id \in Requests : ThreadCheck(job_id)
    \/ \E job_id \in Requests : ThreadExecuted(job_id)
    \/ \E job_id \in Requests : ThreadFinish(job_id)
    \/ \E job_id \in Requests : ThreadComplete(job_id)
    \/ \E job_id \in Requests : AppCancelJob(job_id)
    \/ \E job_id \in Requests : AppDeleteRecords(job_id)

AppSpec == AppInit /\ [][AppNext]_vars

----------------------------------------------------------------------------
(* Views used by the properties *)

\* a trace entry as the caller reads it: the dicts its fields point to
EntryView(k) ==
    [block_type        |-> trace[k].block_type,
     input             |-> heap[trace[k].input],
     output            |-> trace[k].output,
     accumulated_state |-> heap[trace[k].accumulated_state]]

\* the context the run has accumulated so far
Accumulated == heap[accumulated_data]

\* the context as it stood after the last recorded step
LastRecorded ==
    IF trace = << >> THEN caller_before
    ELSE heap[trace[Len(trace)].accumulated_state]

\* the ValidationError that _validate_output raises (not one a block raised)
RaisedByValidate ==
    raised.type = "ValidationError" /\ "extra_fields" \in DOMAIN raised.detail

UnknownAt == {k \in 1..Len(blocks) : blocks[k].type \notin DOMAIN Registry}

FirstUnknown == CHOOSE k \in UnknownAt : \A j \in UnknownAt : k <= j

\* the locals of every run, executing or suspended
AllFrames ==
    [r \in (DOMAIN frames) \cup {running} |->
        IF r = running THEN CurrentFrame ELSE frames[r]]

\* what a run's caller can read of frame f: its context and its trace
FrameView(f) ==
    [context |-> IF f.accumulated_data = 0 THEN EmptyDict ELSE heap[f.accumulated_data],
     trace   |-> [k \in 1..Len(f.trace) |->
                     [block_type        |-> f.trace[k].block_type,
                      input             |-> heap[f.trace[k].input],
                      output            |-> f.trace[k].output,
                      accumulated_state |-> heap[f.trace[k].accumulated_state]]]]

\* the context of a run executed alone: the outputs of its first n steps
\* merged in order into its initial context
RECURSIVE MergedAlone(_, _, _)
MergedAlone(before, tr, n) ==
    IF n = 0 THEN before
    ELSE DictUpdate(MergedAlone(before, tr, n - 1), tr[n].output)

\* frame f holds what its run produces when it is the only one
AsAlone(f) ==
    /\ heap[f.initial_data] = f.caller_before
    /\ f.accumulated_data # 0 =>
          heap[f.accumulated_data] = MergedAlone(f.caller_before, f.trace, Len(f.trace))
    /\ \A k \in 1..Len(f.trace) :
          /\ f.trace[k].block_type = block_instances[k].class
          /\ heap[f.trace[k].input] = MergedAlone(f.caller_before, f.trace, k - 1)
          /\ heap[f.trace[k].accumulated_state] = MergedAlone(f.caller_before, f.trace, k)
    /\ f.pc = "completed" => Len(f.trace) = Len(block_instances)
    /\ f.pc = "failed" => Len(f.trace) = f.i /\ f.i < Len(block_instances)

----------------------------------------------------------------------------
(* Properties *)

\* C1: a run that completes returns a trace with one entry per block
\* instance, whose block_type values follow the declared block order, and a
\* final context equal to the accumulated_state of the last trace entry.
C1_TraceMatchesBlocks ==
    pc = "completed" =>
        /\ Len(trace) = Len(block_instances)
        /\ Len(trace) = Len(blocks)
        /\ \A k \in 1..Len(trace) : EntryView(k).block_type = blocks[k].type
        /\ Len(trace) > 0 => Accumulated = EntryView(Len(trace)).accumulated_state

C1_Witness ==
    /\ pc = "completed"
    /\ Len(trace) = 2
    /\ trace[1].block_type # trace[2].block_type
    /\ trace[2].output # EmptyDict

C3_FailFast ==
    /\ (pc # "new" /\ UnknownAt # {}) =>
          /\ pc = "construct_failed"
          /\ block_instances = << >>
          /\ calls = << >>
          /\ trace = << >>
          /\ IF \A j \in 1..(FirstUnknown - 1) : blocks[j].config_ok
             THEN /\ raised.type = "BlockNotFoundError"
                  /\ raised.detail.block_type = blocks[FirstUnknown].type
             ELSE raised.type = "TypeError"
    /\ raised.type = "BlockNotFoundError" => pc = "construct_failed"

C3_Witness ==
    /\ pc = "construct_failed"
    /\ raised.type = "BlockNotFoundError"
    /\ Len(blocks) = 2
    /\ FirstUnknown = 2

\* C3 as stated: a block list with an unknown type at any position makes
\* construction raise BlockNotFoundError.
C3_Original ==
    (pc # "new" /\ UnknownAt # {}) =>
        /\ pc = "construct_failed"
        /\ raised.type = "BlockNotFoundError"

\* C4: when the block at 0-based index i raises an exception other than the
\* engine's ValidationError, execute raises BlockExecutionError whose detail
\* has that block's type name, step i+1, the original message and the
\* context snapshot taken before the call.
C4_ExecutionErrorDetail ==
    [][\A e \in BlockExceptions :
          (e.type # "ValidationError" /\ BlockRaises(e)) =>
              /\ pc' = "failed"
              /\ raised'.type = "BlockExecutionError"
              /\ raised'.detail.block_type = blocks[i + 1].type
              /\ raised'.detail.step = i + 1
              /\ raised'.detail.error = e.message
              /\ heap'[raised'.detail.input] = LastRecorded
              /\ Len(raised'.message) >= Len(e.message)
              /\ SubSeq(raised'.message,
                        Len(raised'.message) - Len(e.message) + 1,
                        Len(raised'.message)) = e.message]_vars

C4_Witness ==
    /\ pc = "failed"
    /\ raised.type = "BlockExecutionError"
    /\ raised.detail.step = 2
    /\ raised.detail.error = <<"boom">>
    /\ heap[raised.detail.input] # caller_before

\* C5: a later block's value for a key wins in the final context while the
\* earlier block's entry keeps its own value; recording later steps never
\* changes the input, output or accumulated_state of an earlier entry.
C5_SnapshotsPerStep ==
    [][/\ \A k \in 1..Len(trace) :
             /\ Len(trace') >= k
             /\ EntryView(k)' = EntryView(k)
       /\ \A k \in 1..Len(trace') : \A x \in DOMAIN trace'[k].output :
             /\ EntryView(k)'.accumulated_state[x] = trace'[k].output[x]
             /\ (\A m \in (k + 1)..Len(trace') : x \notin DOMAIN trace'[m].output)
                    => Accumulated'[x] = trace'[k].output[x]]_vars

C5_Witness ==
    /\ pc = "completed"
    /\ Len(trace) = 2
    /\ "text" \in DOMAIN trace[1].output
    /\ "text" \in DOMAIN trace[2].output
    /\ trace[1].output["text"] # trace[2].output["text"]
    /\ Accumulated["text"] = trace[2].output["text"]
    /\ EntryView(1).accumulated_state["text"] = trace[1].output["text"]

\* C6: blocks are invoked in declared order, each at most once; a block is
\* invoked only after every earlier block's result was validated, merged and
\* traced; after a failure the run is terminal: nothing more is invoked or
\* retried, and what earlier blocks merged stays in the context.
C6_StrictlySequential ==
    [][/\ calls' = [k \in 1..Len(calls') |-> k - 1]
       /\ Len(calls') <= Len(block_instances')
       /\ pc' = "await" =>
             /\ Len(calls') = i' + 1
             /\ Len(trace') = i'
             /\ Accumulated' = LastRecorded'
       /\ pc' \in {"loop", "completed"} =>
             /\ Len(calls') = i'
             /\ Len(trace') = i'
       /\ pc' = "failed" =>
             /\ Len(calls') = Len(trace') + 1
             /\ Accumulated' = LastRecorded'
       /\ pc \in {"failed", "construct_failed", "completed"} => vars' = vars]_vars

C6_Witness ==
    /\ pc = "failed"
    /\ raised.type = "BlockExecutionError"
    /\ calls = <<0, 1>>
    /\ Len(trace) = 1
    /\ Accumulated # caller_before

\* C7: the first entry's input is the caller's initial context, each entry's
\* accumulated_state is its input overridden key by key by its output, each
\* later entry's input is the previous entry's accumulated_state; a block
\* with empty declared outputs returns no keys and leaves the context as is.
C7_TraceChain ==
    \A k \in 1..Len(trace) :
        LET e == EntryView(k)
        IN  /\ k = 1 => e.input = caller_before
            /\ k > 1 => e.input = EntryView(k - 1).accumulated_state
            /\ DOMAIN e.accumulated_state = (DOMAIN e.input) \cup (DOMAIN e.output)
            /\ \A x \in DOMAIN e.accumulated_state :
                  e.accumulated_state[x] =
                      IF x \in DOMAIN e.output THEN e.output[x] ELSE e.input[x]
            /\ block_instances[k].outputs = {} =>
                  /\ e.output = EmptyDict
                  /\ e.accumulated_state = e.input

C7_Witness ==
    /\ pc = "completed"
    /\ Len(trace) = 2
    /\ trace[2].block_type = "UserBlock"
    /\ trace[1].output # EmptyDict
    /\ EntryView(2).input # caller_before

\* C8: execute never changes the caller's initial_context dict, whether it
\* returns or raises and whatever the blocks return.
C8_CallerContextUntouched ==
    heap[initial_data] = caller_before

C8_Witness ==
    /\ pc = "failed"
    /\ Len(trace) >= 1
    /\ "text" \in DOMAIN caller_before
    /\ Accumulated["text"] # caller_before["text"]
    /\ "valid" \notin DOMAIN caller_before
    /\ "valid" \in DOMAIN Accumulated

\* C9: the key set of the accumulated context only grows: the keys of the
\* initial context and of every recorded snapshot are still present, and for
\* each entry keys(input) is a subset of keys(accumulated_state).
C9_KeysOnlyGrow ==
    /\ accumulated_data # 0 => DOMAIN caller_before \subseteq DOMAIN Accumulated
    /\ \A k \in 1..Len(trace) :
          /\ DOMAIN EntryView(k).input \subseteq DOMAIN EntryView(k).accumulated_state
          /\ DOMAIN EntryView(k).accumulated_state \subseteq DOMAIN Accumulated
          /\ DOMAIN caller_before \subseteq DOMAIN EntryView(k).input

C9_Witness ==
    /\ pc = "completed"
    /\ Len(trace) = 2
    /\ DOMAIN caller_before = {"valid"}
    /\ DOMAIN trace[2].output = {"text"}
    /\ DOMAIN Accumulated = {"text", "valid"}

\* C10: a block whose declared outputs is the wildcard ["*"] is exempt from
\* output validation: whatever keys it returns, no ValidationError is raised
\* for it.
C10_WildcardExempt ==
    RaisedByValidate => "*" \notin raised.detail.declared_outputs

C12_NotFoundDetail ==
    raised.type = "BlockNotFoundError" =>
        /\ UnknownAt # {}
        /\ raised.detail.block_type = blocks[FirstUnknown].type
        /\ raised.detail.available_blocks = DOMAIN Registry
        /\ (DOMAIN Registry # {}) => raised.detail.available_blocks # {}
        /\ \E k \in 1..Len(raised.message) :
              raised.message[k] = blocks[FirstUnknown].type

C12_Witness ==
    /\ raised.type = "BlockNotFoundError"
    /\ Len(blocks) = 3
    /\ FirstUnknown = 3
    /\ blocks[1].type # blocks[2].type

\* C13: progress reporting never affects the run: whatever the sink's update
\* call does, the block is invoked next on the same context and trace, and
\* nothing is raised.
C13_SinkIsSideChannel ==
    [][pc = "await_storage" =>
          /\ pc' = "await"
          /\ raised' = raised
          /\ trace' = trace
          /\ Accumulated' = Accumulated]_vars

\* C17: create_job called while a job is active raises RuntimeError and leaves
\* the job table, the active slot and the histories unchanged; called while no
\* job is active it succeeds and makes the new job the active one. At most
\* one job is ever active, and the active job is in the table.
C17_SingleActiveJob ==
    [][last_call'.name = "create_job" =>
          IF active_job # 0
          THEN /\ last_call'.ret = "RuntimeError"
               /\ jobs' = jobs
               /\ active_job' = active_job
               /\ job_history' = job_history
          ELSE /\ last_call'.ret = "None"
               /\ active_job' = last_call'.id
               /\ last_call'.id \in DOMAIN jobs'
               /\ jobs'[last_call'.id].status = "running"]_vars

C17_Witness ==
    /\ last_call.name = "create_job"
    /\ last_call.ret = "RuntimeError"
    /\ active_job # 0
    /\ last_call.id \notin DOMAIN jobs
    /\ jobs[active_job].status = "running"

\* C18: update_job setting a terminal status (completed, failed, cancelled)
\* clears the active slot when the job is the active one and leaves the job
\* with completed_at set.
C18_TerminalUpdateStamps ==
    [][(/\ last_call'.name = "update_job"
        /\ last_call'.ret = "True"
        /\ "status" \in DOMAIN last_call'.args
        /\ last_call'.args.status \in TerminalStatuses)
       => /\ jobs'[last_call'.id].status = last_call'.args.status
          /\ jobs'[last_call'.id].completed_at # "None"
          /\ active_job = last_call'.id => active_job' = 0]_vars

\* C19: mutating a dict obtained from get_job or from the list of
\* get_pipeline_history leaves the queue's own state as it was.
C19_GettersReturnCopies ==
    [][last_call'.name = "mutate" => jobs' = jobs]_vars

\* C14: when runs of execute interleave at their awaits, every run's context
\* and trace are what that run produces alone (its own outputs merged in
\* order into its own initial context), and no step of the executing run
\* changes the context or trace of a suspended run; the runs take no lock.
C14_RunsIndependent ==
    /\ [](\A r \in DOMAIN AllFrames : AsAlone(AllFrames[r]))
    /\ [][running' = running =>
             \A r \in DOMAIN frames : FrameView(frames[r])' = FrameView(frames[r])]_vars

C14_Witness ==
    /\ pc = "completed"
    /\ running = 1
    /\ Len(trace) = 2
    /\ initial_data = 1
    /\ 2 \in DOMAIN frames
    /\ frames[2].pc = "completed"
    /\ frames[2].initial_data = 1
    /\ trace[1].accumulated_state < frames[2].trace[1].accumulated_state
    /\ frames[2].trace[2].accumulated_state < trace[2].accumulated_state
    /\ heap[accumulated_data] = [text |-> 1]
    /\ heap[frames[2].accumulated_data] = [text |-> 2, valid |-> 2]

C20_SchemaIsDerived ==
    (schema.asked = {"get_schema", "get_config_schema"}) =>
        LET cs == schema.config_schema
        IN  /\ DOMAIN cs = {"type", "properties", "required"}
            /\ cs.type = "object"
            /\ DOMAIN cs.properties = ParamNames(schema.init)
            /\ \A n \in ParamNames(schema.init) :
                  LET param == ParamOf(schema.init, n)
                      listed == \E k \in 1..Len(cs.required) : cs.required[k] = n
                  IN  /\ param.annotation = "int" => cs.properties[n].type = "integer"
                      /\ param.default = "empty" => listed
                      /\ param.default # "empty" =>
                            /\ ~listed
                            /\ cs.properties[n]["default"] = param.default
            /\ cs = schema.derived

\* C21: the deriver maps int to integer, float to number, bool to boolean,
\* list[T] to an array whose items are derived from T, a union (written
\* either way) with non-None arms to the schema of its first non-None arm,
\* so T-or-None to the schema of T, and anything else to string.
C21_TypeMapping ==
    (schema.asked = {"_get_property_def"}) =>
        LET t    == schema.param_type
            d    == schema.property_def
            arms == SelectSeq(t.args, LAMBDA arg : arg # Prim("NoneType"))
        IN  IF t.kind \in UnionKinds /\ arms # << >>
            THEN d = GetPropertyDef(arms[1], schema.build)
            ELSE IF t.kind = "list"
            THEN d = [type |-> "array",
                      items |-> GetPropertyDef(t.args[1], schema.build)]
            ELSE IF t = Prim("int") THEN d = [type |-> "integer"]
            ELSE IF t = Prim("float") THEN d = [type |-> "number"]
            ELSE IF t = Prim("bool") THEN d = [type |-> "boolean"]
            ELSE d = [type |-> "string"]

C24_NonStrictNeverRaises ==
    (validator.pc = "executed" /\ ~validator.block.strict) =>
        /\ validator.result.raised = "None"
        /\ validator.result.valid =>
              validator.result.parsed_json # PyNone \/ validator.field \in
                  {PyNone, PyText(<<"null">>), PyText(Fenced(<<"null">>))}
        /\ ~validator.result.valid => validator.result.parsed_json = PyNone

\* the candidate modules that load: not skipped by name, import succeeds
Loadable(j) ==
    /\ ~registry.modules[j].hidden
    /\ registry.modules[j].load = Loads_ok

\* C23: discovery is never aborted by a module that fails to load; such a
\* module contributes no entry; every block class name of every loadable
\* module is registered and returned by get_block_class and list_blocks,
\* bound to the class of the last loadable module that defines it.
C23_DiscoveryResilient ==
    /\ registry.pc # "none" =>
          /\ registry.raised = "None"
          /\ \A k \in 1..Len(registry._blocks) :
                /\ registry._blocks[k].obj.module \in 1..registry.scanned
                /\ Loadable(registry._blocks[k].obj.module)
          /\ registry.pc = "discover" \/ registry.scanned = Len(registry.modules)
    /\ registry.pc = "queried" =>
          \A j \in 1..Len(registry.modules) : \A c \in registry.modules[j].classes :
              Loadable(j) =>
                  /\ registry.got[c].name = ClassNames[c]
                  /\ Loadable(registry.got[c].module)
                  /\ c \in registry.modules[registry.got[c].module].classes
                  /\ registry.got[c].module >= j
                  /\ \E k \in 1..Len(registry.listed) :
                        registry.listed[k] = ClassNames[c]

\* a module with a syntax error between two loadable modules, each with a
\* block class of its own, and both classes returned
C23_Witness ==
    /\ registry.pc = "queried"
    /\ Len(registry.modules) = 3
    /\ Loadable(1) /\ registry.modules[1].classes = {1}
    /\ ~registry.modules[2].hidden
    /\ registry.modules[2].load = "SyntaxError"
    /\ registry.modules[2].classes # {}
    /\ Loadable(3) /\ registry.modules[3].classes = {2}
    /\ registry.got[1].module = 1
    /\ registry.got[2].module = 3

\* C25: a job cancelled through JobQueue.cancel_job never afterwards has
\* status completed in the JobQueue, however the cancel request interleaves
\* with the processor's final read of the status and its completed update.
C25_CancelledStaysCancelled ==
    [][Cancelled => jobs'[1].status # "completed"]_vars

\* C29: in every state of the JobQueue the active slot is empty or holds
\* the id of a job of the table whose status is not completed, failed or
\* cancelled; a terminal update, a cancel or a delete of a job that is not
\* the active one leaves the slot as it was.
C29_ActiveSlotSound ==
    /\ [](active_job # 0 =>
             /\ active_job \in DOMAIN jobs
             /\ jobs[active_job].status \notin TerminalStatuses)
    /\ [][(/\ last_call'.name \in {"update_job", "cancel_job", "delete_job"}
           /\ last_call'.id # active_job)
          => active_job' = active_job]_vars

\* a job that is not the active one is cancelled while another job is active
C29_Witness ==
    /\ last_call.name = "cancel_job"
    /\ last_call.ret = "True"
    /\ active_job # 0
    /\ last_call.id # active_job
    /\ jobs[last_call.id].status = "cancelled"
    /\ jobs[active_job].status = "running"

\* C30: for every seed file /generate accepts, repetitions of zero, negative
\* or not an integer included, the progress the processor reports is within
\* [0, 1], never decreases during the job, and is computed without a
\* division by zero. A progress is kept as its numerator and denominator.
C30_ProgressInRange ==
    /\ [](proc.cause # "progress")
    /\ [](LET num == jobs[1].progress[1]
              den == jobs[1].progress[2]
          IN  1 \in DOMAIN jobs =>
                 /\ den # 0
                 /\ den > 0 => (0 <= num /\ num <= den)
                 /\ den < 0 => (0 >= num /\ num >= den))
    /\ [][(1 \in DOMAIN jobs /\ 1 \in DOMAIN jobs') =>
             LET a == jobs[1].progress
                 b == jobs'[1].progress
             IN  IF a[2] * b[2] > 0 THEN a[1] * b[2] <= b[1] * a[2]
                 ELSE a[1] * b[2] >= b[1] * a[2]]_vars

C26_OneThreadExecutes ==
    app.pc = "serving" =>
        Cardinality({job_id \in DOMAIN app.threads :
                        app.threads[job_id].pc = "executing"}) <= 1

\* C27: a /generate request that is not accepted has created no job row,
\* and every job row with status running belongs to a job that was
\* registered in the JobQueue and handed to a thread, or to a request that
\* is about to register it.
C27_NoOrphanRow ==
    app.pc = "serving" =>
        /\ \A r \in Requests :
              app.requests[r].pc \in {"conflict", "bad_request", "error"} =>
                  app.requests[r].job_id = 0
        /\ \A job_id \in DOMAIN db.jobs :
              db.jobs[job_id].status = "running" =>
                  \/ job_id \in DOMAIN app.threads
                  \/ \E r \in Requests : app.requests[r] =
                        [pc |-> "inserted", job_id |-> job_id]

====
